---- MODULE Spec2Model ----
(***************************************************************************)
(* RegExpValidator (src/src/validators/regExp.ts): the generic matching    *)
(* operation `validate`, the rule catalog, and the operations built on it  *)
(* (isValid, isValidCoordinates, isValidDate, isStrongPassword, the        *)
(* discriminated lookups).  Text is a sequence of one-character strings;   *)
(* a rule is a RegExp object: a pattern tree, a set of flags and a         *)
(* lastIndex that lives in the state.                                      *)
(***************************************************************************)
EXTENDS Integers, Sequences, FiniteSets, TLC

(***************************************************************************)
(* JavaScript values.                                                      *)
(***************************************************************************)
Undefined == [t |-> "undefined"]
Null == [t |-> "null"]
Bool(b) == [t |-> "boolean", v |-> b]
Num(n) == [t |-> "number", v |-> n]
Str(s) == [t |-> "string", v |-> s]
\* typeof x
TypeOf(x) == IF x.t = "null" THEN "object" ELSE x.t
\* ToBoolean(x) for the values the validator tests: undefined, null, false and 0
\* are falsy, objects and functions are truthy
Truthy(x) ==
    CASE x.t = "undefined" -> FALSE
      [] x.t = "null" -> FALSE
      [] x.t = "boolean" -> x.v
      [] x.t = "number" -> x.v # 0
      [] OTHER -> TRUE
\* a || b and a && b return one of their operands
JsOr(a, b) == IF Truthy(a) THEN a ELSE b
JsAnd(a, b) == IF Truthy(a) THEN b ELSE a
\* { ...a, ...b }: own properties of b override those of a, also when undefined
Spread(a, b) ==
    [k \in (DOMAIN a) \cup (DOMAIN b) |-> IF k \in DOMAIN b THEN b[k] ELSE a[k]]

(***************************************************************************)
(* Characters: the printable ASCII range in code order (the slot of the    *)
(* grave accent, which no value of the model uses, holds a placeholder).   *)
(***************************************************************************)
Ascii ==
    << " ", "!", "\"", "#", "$", "%", "&", "'", "(", ")", "*", "+", ",", "-", ".", "/",
       "0", "1", "2", "3", "4", "5", "6", "7", "8", "9", ":", ";", "<", "=", ">", "?",
       "@", "A", "B", "C", "D", "E", "F", "G", "H", "I", "J", "K", "L", "M", "N", "O",
       "P", "Q", "R", "S", "T", "U", "V", "W", "X", "Y", "Z", "[", "\\", "]", "^", "_",
       "<grave>", "a", "b", "c", "d", "e", "f", "g", "h", "i", "j", "k", "l", "m", "n", "o",
       "p", "q", "r", "s", "t", "u", "v", "w", "x", "y", "z", "{", "|", "}", "~" >>
AsciiSet == {Ascii[i] : i \in 1..Len(Ascii)}
CodeOf == [c \in AsciiSet |-> CHOOSE i \in 1..Len(Ascii) : Ascii[i] = c]
\* the characters of a class range such as [a-f]
CharRange(a, b) == {Ascii[i] : i \in CodeOf[a]..CodeOf[b]}
Digit == CharRange("0", "9")
Upper == CharRange("A", "Z")
Lower == CharRange("a", "z")
\* the characters the dot does not match (no s flag)
LineTerminators == {"\n", "\r"}
\* Canonicalize(ch) of the i flag: letters compare by their upper case
Canonicalize(c) == IF c \in Lower THEN Ascii[CodeOf[c] - 32] ELSE c

(***************************************************************************)
(* Pattern trees.                                                          *)
(***************************************************************************)
Inf == 0 - 1
Chr(S) == [k |-> "chr", cs |-> S, neg |-> FALSE]
NotChr(S) == [k |-> "chr", cs |-> S, neg |-> TRUE]
Lit(c) == Chr({c})
Dot == NotChr(LineTerminators)
Cat(l) == [k |-> "cat", l |-> l]
Alt(l) == [k |-> "alt", l |-> l]
Rep(r, lo, hi) == [k |-> "rep", r |-> r, lo |-> lo, hi |-> hi]
Opt(r) == Rep(r, 0, 1)
Star(r) == Rep(r, 0, Inf)
Plus(r) == Rep(r, 1, Inf)
Bol == [k |-> "bol"]
Eol == [k |-> "eol"]
LookAhead(r) == [k |-> "la", r |-> r]
NegLookAhead(r) == [k |-> "nla", r |-> r]

(***************************************************************************)
(* The backtracking matcher.  M(r, ic, s, i) is the sequence of positions  *)
(* at which a match of r that starts at position i of s can end, in the    *)
(* order the engine tries them (greedy quantifiers, alternatives left to   *)
(* right); positions count the characters consumed, 0..Len(s).             *)
(***************************************************************************)
RECURSIVE M(_, _, _, _)
RECURSIVE MCat(_, _, _, _, _)
RECURSIVE MCatFrom(_, _, _, _, _)
RECURSIVE MAlt(_, _, _, _, _)
RECURSIVE MRep(_, _, _, _, _)
RECURSIVE MRepFrom(_, _, _, _, _, _)
ClassHas(r, ic, c) ==
    LET in == IF ic THEN Canonicalize(c) \in {Canonicalize(d) : d \in r.cs}
                    ELSE c \in r.cs
    IN  in # r.neg
M(r, ic, s, i) ==
    CASE r.k = "chr" -> IF i < Len(s) /\ ClassHas(r, ic, s[i + 1]) THEN <<i + 1>> ELSE <<>>
      [] r.k = "bol" -> IF i = 0 THEN <<i>> ELSE <<>>
      [] r.k = "eol" -> IF i = Len(s) THEN <<i>> ELSE <<>>
      [] r.k = "cat" -> MCat(r.l, 1, ic, s, i)
      [] r.k = "alt" -> MAlt(r.l, 1, ic, s, i)
      [] r.k = "rep" -> MRep(r, ic, s, i, 0)
      [] r.k = "la" -> IF M(r.r, ic, s, i) # <<>> THEN <<i>> ELSE <<>>
      [] r.k = "nla" -> IF M(r.r, ic, s, i) = <<>> THEN <<i>> ELSE <<>>
MCat(l, n, ic, s, i) ==
    IF n > Len(l) THEN <<i>> ELSE MCatFrom(l, n + 1, ic, s, M(l[n], ic, s, i))
MCatFrom(l, n, ic, s, js) ==
    IF js = <<>> THEN <<>>
    ELSE MCat(l, n, ic, s, Head(js)) \o MCatFrom(l, n, ic, s, Tail(js))
MAlt(l, n, ic, s, i) ==
    IF n > Len(l) THEN <<>> ELSE M(l[n], ic, s, i) \o MAlt(l, n + 1, ic, s, i)
\* a quantified character class: the longest run first, then each shorter one
RunLength(r, ic, s, i) ==
    LET most == IF r.hi = Inf \/ r.hi > Len(s) - i THEN Len(s) - i ELSE r.hi
        runs == {n \in 0..most : \A k \in 1..n : ClassHas(r.r, ic, s[i + k])}
    IN  CHOOSE n \in runs : \A m \in runs : m <= n
MRun(r, ic, s, i) ==
    LET n == RunLength(r, ic, s, i)
    IN  IF n < r.lo THEN <<>> ELSE [j \in 1..(n - r.lo + 1) |-> i + n - j + 1]
\* c iterations done; an iteration that consumes nothing once the minimum is
\* met is rejected, as the engine's empty check does
MRep(r, ic, s, i, c) ==
    IF c = 0 /\ r.r.k = "chr" THEN MRun(r, ic, s, i) ELSE
    LET more == IF r.hi = Inf \/ c < r.hi
                THEN MRepFrom(r, ic, s, i, c, M(r.r, ic, s, i))
                ELSE <<>>
        stop == IF c >= r.lo THEN <<i>> ELSE <<>>
    IN  more \o stop
MRepFrom(r, ic, s, i, c, js) ==
    IF js = <<>> THEN <<>>
    ELSE (IF Head(js) > i \/ c < r.lo THEN MRep(r, ic, s, Head(js), c + 1) ELSE <<>>)
         \o MRepFrom(r, ic, s, i, c, Tail(js))

(***************************************************************************)
(* RegExp objects.  A rule is [t, class, id, source, flags]: id is the     *)
(* object's identity, under which the state keeps its lastIndex (a rule    *)
(* created during a call has the identity Fresh and starts at 0).          *)
(***************************************************************************)
RegExp(id, src, fl) ==
    [t |-> "object", class |-> "RegExp", id |-> id, source |-> src, flags |-> fl]
Fresh == <<0, "fresh">>
IsRegExp(p) == p.t = "object" /\ p.class = "RegExp"
\* a function object, e.g. an inherited Object.prototype member
Function(name) == [t |-> "function", class |-> "Function", name |-> name]
UsesLastIndex(R) == "g" \in R.flags \/ "y" \in R.flags
MatchArray(s, i, e) ==
    [t |-> "object", class |-> "Array", index |-> i, items |-> <<SubSeq(s, i + 1, e)>>]
\* the search loop of RegExpBuiltinExec: the first position >= i where the
\* pattern matches (only position i when sticky), or failure
RECURSIVE ExecFrom(_, _, _)
ExecFrom(R, s, i) ==
    IF i > Len(s) THEN Null
    ELSE LET ends == M(R.source, "i" \in R.flags, s, i)
         IN  IF ends # <<>> THEN MatchArray(s, i, Head(ends))
             ELSE IF "y" \in R.flags THEN Null
             ELSE ExecFrom(R, s, i + 1)
\* RegExpBuiltinExec(R, S): [m: the match array or null, lastIndex: R's new lastIndex]
ExecResult(R, lastIndex, m) ==
    [m |-> m,
     lastIndex |-> IF ~UsesLastIndex(R) THEN lastIndex
                   ELSE IF m = Null THEN 0
                   ELSE m.index + Len(m.items[1])]
RegExpExec(R, s, lastIndex) ==
    ExecResult(R, lastIndex, ExecFrom(R, s, IF UsesLastIndex(R) THEN lastIndex ELSE 0))
\* RegExp.prototype.test
TestResult(x) == [v |-> Bool(x.m # Null), lastIndex |-> x.lastIndex]
RegExpTest(R, s, lastIndex) == TestResult(RegExpExec(R, s, lastIndex))
\* the loop of RegExp.prototype[@@match] for a global rule: every match in turn,
\* stepping over an empty match; the failing exec that ends it resets lastIndex
RECURSIVE MatchAll(_, _, _, _)
RECURSIVE MatchAllStep(_, _, _, _)
MatchAll(R, s, lastIndex, acc) == MatchAllStep(R, s, acc, RegExpExec(R, s, lastIndex))
MatchAllStep(R, s, acc, x) ==
    IF x.m = Null
    THEN [m |-> IF acc = <<>> THEN Null
                ELSE [t |-> "object", class |-> "Array", index |-> 0, items |-> acc],
          lastIndex |-> x.lastIndex]
    ELSE MatchAll(R, s,
                  IF x.m.items[1] = <<>> THEN x.lastIndex + 1 ELSE x.lastIndex,
                  acc \o x.m.items)
\* String.prototype.match(regexp)
StringMatch(s, R, lastIndex) ==
    IF "g" \in R.flags THEN MatchAll(R, s, 0, <<>>) ELSE RegExpExec(R, s, lastIndex)

(***************************************************************************)
(* validate (regExp.ts:96-133).  elapsed is Date.now() - startTime as the  *)
(* guard reads it; the result carries the rule's new lastIndex.            *)
(***************************************************************************)
Verbose == [t |-> "string", v |-> "verbose"]
DefaultTimeout == 5000
\* the text of the TypeError thrown by pattern.test(value) on a non-RegExp
ErrorText(pattern) ==
    IF pattern.t \in {"undefined", "null"}
    THEN "TypeError: Cannot read properties of " \o pattern.t \o " (reading 'test')"
    ELSE "TypeError: pattern.test is not a function"
TimeoutResult(mode) ==
    IF mode = Verbose
    THEN [t |-> "object", isValid |-> Bool(FALSE), message |-> <<"Validation timeout exceeded">>]
    ELSE Bool(FALSE)
\* validate without its catch block: the TypeError leaves the call as a throw
ErrorRethrown(mode, error) == [t |-> "throw", error |-> error]
ErrorResult(mode, error) ==
    IF mode = Verbose
    THEN [t |-> "object", isValid |-> Bool(FALSE), message |-> <<"Validation error: ", error>>]
    ELSE Bool(FALSE)
\* a guard that falls back to 5000 only when no timeout is set:
\* elapsed > (this.options.timeout ?? 5000)
GuardTripsNullish(elapsed, options) ==
    elapsed > (IF options.timeout = Undefined THEN DefaultTimeout ELSE options.timeout.v)
\* the comparison of the guard: elapsed > (this.options.timeout || 5000)
GuardTrips(elapsed, options) == elapsed > JsOr(options.timeout, Num(DefaultTimeout)).v
\* lines 114-121: tested is pattern.test(value), matched is value.match(pattern)
VerboseResult(tested, matched) ==
    [ret |-> [t |-> "object",
              isValid |-> tested.v,
              matches |-> matched.m,
              message |-> IF tested.v.v THEN <<"Validation successful">>
                          ELSE <<"Validation failed">>],
     lastIndex |-> matched.lastIndex]
AfterTest(value, pattern, mode, tested) ==
    IF mode = Verbose
    THEN VerboseResult(tested, StringMatch(value, pattern, tested.lastIndex))
    ELSE [ret |-> tested.v, lastIndex |-> tested.lastIndex]
MatchResult(value, pattern, lastIndex, mode) ==
    AfterTest(value, pattern, mode, RegExpTest(pattern, value, lastIndex))
validate(value, pattern, lastIndex, mode, elapsed, options) ==
    IF GuardTrips(elapsed, options)
    THEN [ret |-> TimeoutResult(mode), lastIndex |-> lastIndex]
    ELSE IF ~IsRegExp(pattern)
    THEN [ret |-> ErrorResult(mode, ErrorText(pattern)), lastIndex |-> lastIndex]
    ELSE MatchResult(value, pattern, lastIndex, mode)

\* validate applied to a rule whose lastIndex lives in heap (when it has one there)
Kept(heap, pattern) == IsRegExp(pattern) /\ pattern.id \in DOMAIN heap
Stored(heap, pattern, r) ==
    [ret |-> r.ret,
     heap |-> IF Kept(heap, pattern) THEN [heap EXCEPT ![pattern.id] = r.lastIndex]
              ELSE heap]
\* validate on an instance that adds the i flag to the rule when its
\* caseSensitive option is false
validateOnFolding(heap, options, value, pattern, mode, elapsed) ==
    Stored(heap, pattern,
           validate(value,
                    IF IsRegExp(pattern) /\ options.caseSensitive = Bool(FALSE)
                    THEN [pattern EXCEPT !.flags = @ \cup {"i"}]
                    ELSE pattern,
                    IF Kept(heap, pattern) THEN heap[pattern.id] ELSE 0,
                    mode, elapsed, options))
validateOn(heap, options, value, pattern, mode, elapsed) ==
    Stored(heap, pattern,
           validate(value, pattern, IF Kept(heap, pattern) THEN heap[pattern.id] ELSE 0,
                    mode, elapsed, options))

(***************************************************************************)
(* The rule catalog (regExp.ts:20-84), the fields of instance self.        *)
(***************************************************************************)
Word(w) == Cat([i \in 1..Len(w) |-> Lit(w[i])])
Anchored(body) == Cat(<<Bol>> \o body \o <<Eol>>)
Fraction == Opt(Cat(<<Lit("."), Plus(Chr(Digit))>>))
ZeroFraction == Opt(Cat(<<Lit("."), Plus(Lit("0"))>>))
\* a latitude rule whose tens digit runs to 9: /^-?([1-9]?\d(?:\.\d+)?|90(?:\.0+)?)$/
LatitudeUpTo99 ==
    Anchored(<<Opt(Lit("-")),
               Alt(<<Cat(<<Opt(Chr(CharRange("1", "9"))), Chr(Digit), Fraction>>),
                     Cat(<<Word(<<"9", "0">>), ZeroFraction>>)>>)>>)
\* /^-?([1-8]?\d(?:\.\d+)?|90(?:\.0+)?)$/
LatitudeSource ==
    Anchored(<<Opt(Lit("-")),
               Alt(<<Cat(<<Opt(Chr(CharRange("1", "8"))), Chr(Digit), Fraction>>),
                     Cat(<<Word(<<"9", "0">>), ZeroFraction>>)>>)>>)
\* /^-?((1[0-7]|[1-9])?\d(?:\.\d+)?|180(?:\.0+)?)$/
LongitudeSource ==
    Anchored(<<Opt(Lit("-")),
               Alt(<<Cat(<<Opt(Alt(<<Cat(<<Lit("1"), Chr(CharRange("0", "7"))>>),
                                     Chr(CharRange("1", "9"))>>)),
                           Chr(Digit), Fraction>>),
                     Cat(<<Word(<<"1", "8", "0">>), ZeroFraction>>)>>)>>)
\* the special characters and the body class of password.complex
ComplexSpecial == {"@", "$", "!", "%", "*", "?", "&"}
ComplexBody ==
    Upper \cup Lower \cup Digit \cup ComplexSpecial
    \cup {"#", "^", "(", ")", "_", "+", "-", "=", "~", "<grave>", "{", "}", "[", "]",
          ":", ";", "\"", "'", "<", ">", ",", ".", "/"}
Somewhere(S) == LookAhead(Cat(<<Star(Dot), Chr(S)>>))
PasswordComplexSource ==
    Anchored(<<Somewhere(Lower), Somewhere(Upper), Somewhere(Digit),
               Somewhere(ComplexSpecial), Rep(Chr(ComplexBody), 8, Inf)>>)
\* the letters of CA postal codes: [ABCEGHJ-NPRSTVXY] and [ABCEGHJ-NPRSTV-Z]
CaFirst == {"A", "B", "C", "E", "G", "H"} \cup CharRange("J", "N")
           \cup {"P", "R", "S", "T", "V", "X", "Y"}
CaLetter == {"A", "B", "C", "E", "G", "H"} \cup CharRange("J", "N")
            \cup {"P", "R", "S", "T"} \cup CharRange("V", "Z")
Base58 == CharRange("a", "k") \cup CharRange("m", "z") \cup CharRange("A", "H")
          \cup CharRange("J", "N") \cup CharRange("P", "Z") \cup CharRange("1", "9")
HexDigit == CharRange("a", "f") \cup CharRange("A", "F") \cup Digit
\* the class \s, by the white space the values of the model use
Whitespace == {" ", "\t", "\n", "\r", "\f"}
\* slugPattern: /^[a-z0-9]+(?:-[a-z0-9]+)*$/
SlugSource ==
    Cat(<<Bol, Plus(Chr(Lower \cup Digit)),
          Star(Cat(<<Lit("-"), Plus(Chr(Lower \cup Digit))>>)), Eol>>)
\* base64Pattern: /^(?:[A-Za-z0-9+/]{4})*(?:[A-Za-z0-9+/]{2}==|[A-Za-z0-9+/]{3}=)?$/
Base64Source ==
    Cat(<<Bol, Star(Rep(Chr(Upper \cup Lower \cup Digit \cup {"+", "/"}), 4, 4)),
          Opt(Alt(<<Cat(<<Rep(Chr(Upper \cup Lower \cup Digit \cup {"+", "/"}), 2, 2),
                          Lit("="), Lit("=")>>),
                    Cat(<<Rep(Chr(Upper \cup Lower \cup Digit \cup {"+", "/"}), 3, 3),
                          Lit("=")>>)>>)), Eol>>)
\* the isbn rule with its first alternative open at the end:
\* /^(?:\d[- ]?){9}[\dXx]|^(?:\d[- ]?){13}$/
IsbnOpenEnded ==
    Alt(<<Cat(<<Bol, Rep(Cat(<<Chr(Digit), Opt(Chr({"-", " "}))>>), 9, 9),
                Chr(Digit \cup {"X", "x"})>>),
          Cat(<<Bol, Rep(Cat(<<Chr(Digit), Opt(Chr({"-", " "}))>>), 13, 13), Eol>>)>>)
\* the rule literals of the field patterns, regExp.ts:23-61 (the number before
\* each is its line); the emoji class is held by three of its characters
FlatLiterals ==
     \* 23: /^[a-zA-Z0-9._%+-]+@[a-zA-Z0-9.-]+\.[a-zA-Z]{2,}$/
    [email |->
        [source |-> Cat(<<Bol,
                             Plus(Chr(Lower \cup Upper \cup Digit \cup {".", "_", "%", "+", "-"})),
                             Lit("@"),
                             Plus(Chr(Lower \cup Upper \cup Digit \cup {".", "-"})),
                             Lit("."), Rep(Chr(Lower \cup Upper), 2, Inf), Eol>>),
         flags |-> {}],
     \* 24: /^(0[1-9]|[12][0-9]|3[01])\/(0[1-9]|1[0-2])\/\d{4}$/
     date |->
        [source |-> Cat(<<Bol,
                             Alt(<<Cat(<<Lit("0"), Chr(CharRange("1", "9"))>>),
                                   Cat(<<Chr({"1", "2"}), Chr(Digit)>>),
                                   Cat(<<Lit("3"), Chr({"0", "1"})>>)>>),
                             Lit("/"),
                             Alt(<<Cat(<<Lit("0"), Chr(CharRange("1", "9"))>>),
                                   Cat(<<Lit("1"), Chr(CharRange("0", "2"))>>)>>),
                             Lit("/"), Rep(Chr(Digit), 4, 4), Eol>>),
         flags |-> {}],
     \* 25: /^(25[0-5]|2[0-4][0-9]|[01]?[0-9][0-9]?)\.(25[0-5]|2[0-4][0-9]|[01] .../
     ipv4 |->
        [source |-> Cat(<<Bol,
                             Alt(<<Cat(<<Lit("2"), Lit("5"), Chr(CharRange("0", "5"))>>),
                                   Cat(<<Lit("2"), Chr(CharRange("0", "4")), Chr(Digit)>>),
                                   Cat(<<Opt(Chr({"0", "1"})), Chr(Digit), Opt(Chr(Digit))>>)>>),
                             Lit("."),
                             Alt(<<Cat(<<Lit("2"), Lit("5"), Chr(CharRange("0", "5"))>>),
                                   Cat(<<Lit("2"), Chr(CharRange("0", "4")), Chr(Digit)>>),
                                   Cat(<<Opt(Chr({"0", "1"})), Chr(Digit), Opt(Chr(Digit))>>)>>),
                             Lit("."),
                             Alt(<<Cat(<<Lit("2"), Lit("5"), Chr(CharRange("0", "5"))>>),
                                   Cat(<<Lit("2"), Chr(CharRange("0", "4")), Chr(Digit)>>),
                                   Cat(<<Opt(Chr({"0", "1"})), Chr(Digit), Opt(Chr(Digit))>>)>>),
                             Lit("."),
                             Alt(<<Cat(<<Lit("2"), Lit("5"), Chr(CharRange("0", "5"))>>),
                                   Cat(<<Lit("2"), Chr(CharRange("0", "4")), Chr(Digit)>>),
                                   Cat(<<Opt(Chr({"0", "1"})), Chr(Digit), Opt(Chr(Digit))>>)>>),
                             Eol>>),
         flags |-> {}],
     \* 26: /^(?:[0-9a-fA-F]{1,4}:){7}[0-9a-fA-F]{1,4}$/
     ipv6 |->
        [source |-> Cat(<<Bol,
                             Rep(Cat(<<Rep(Chr(Digit \cup CharRange("a", "f") \cup CharRange("A", "F")), 1, 4),
                                       Lit(":")>>), 7, 7),
                             Rep(Chr(Digit \cup CharRange("a", "f") \cup CharRange("A", "F")), 1, 4),
                             Eol>>),
         flags |-> {}],
     \* 27: /^([0-9A-Fa-f]{2}[:-]){5}([0-9A-Fa-f]{2})$/
     macAddress |->
        [source |-> Cat(<<Bol,
                             Rep(Cat(<<Rep(Chr(Digit \cup CharRange("A", "F") \cup CharRange("a", "f")), 2, 2),
                                       Chr({":", "-"})>>), 5, 5),
                             Rep(Chr(Digit \cup CharRange("A", "F") \cup CharRange("a", "f")), 2, 2),
                             Eol>>),
         flags |-> {}],
     \* 28: /^(https?:\/\/)(localhost|\d{1,3}(\.\d{1,3}){3}|([a-zA-Z0-9.-]+\.[a .../
     url |->
        [source |-> Cat(<<Bol,
                             Cat(<<Lit("h"), Lit("t"), Lit("t"), Lit("p"), Opt(Lit("s")),
                                   Lit(":"), Lit("/"), Lit("/")>>),
                             Alt(<<Word(<<"l", "o", "c", "a", "l", "h", "o", "s", "t">>),
                                   Cat(<<Rep(Chr(Digit), 1, 3),
                                         Rep(Cat(<<Lit("."), Rep(Chr(Digit), 1, 3)>>), 3, 3)>>),
                                   Cat(<<Plus(Chr(Lower \cup Upper \cup Digit \cup {".", "-"})),
                                         Lit("."), Rep(Chr(Lower \cup Upper), 2, Inf)>>)>>),
                             Opt(Cat(<<Lit(":"), Rep(Chr(Digit), 1, 5)>>)),
                             Opt(Cat(<<Lit("/"), Star(NotChr(Whitespace))>>)), Eol>>),
         flags |-> {}],
     \* 29: /^[a-zA-Z0-9._-]{3,16}$/
     username |->
        [source |-> Cat(<<Bol,
                             Rep(Chr(Lower \cup Upper \cup Digit \cup {".", "_", "-"}), 3, 16),
                             Eol>>),
         flags |-> {}],
     \* 30: /^#?([a-fA-F0-9]{6}|[a-fA-F0-9]{3})$/
     hexColor |->
        [source |-> Cat(<<Bol, Opt(Lit("#")),
                             Alt(<<Rep(Chr(CharRange("a", "f") \cup CharRange("A", "F") \cup Digit), 6, 6),
                                   Rep(Chr(CharRange("a", "f") \cup CharRange("A", "F") \cup Digit), 3, 3)>>),
                             Eol>>),
         flags |-> {}],
     \* 31: /^-?\d+$/
     onlyIntegers |->
        [source |-> Cat(<<Bol, Opt(Lit("-")), Plus(Chr(Digit)), Eol>>),
         flags |-> {}],
     \* 32: /^[a-zA-Z]+$/
     onlyAlpha |->
        [source |-> Cat(<<Bol, Plus(Chr(Lower \cup Upper)), Eol>>),
         flags |-> {}],
     \* 33: /^[\u{1F600}-\u{1F64F} ... \u{2139}]+$/u
     emoji |->
        [source |-> Cat(<<Bol, Plus(Chr({"<U+1F600>", "<U+2B50>", "<U+2122>"})), Eol>>),
         flags |-> {"u"}],
     \* 34: /^[\x20-\x7E\x0A\x0D]+$/
     ansiArt |->
        [source |-> Cat(<<Bol, Plus(Chr(AsciiSet \cup {"\n", "\r"})), Eol>>),
         flags |-> {}],
     \* 35: /^[A-Za-z0-9-_]+\.[A-Za-z0-9-_]+\.[A-Za-z0-9-_]*$/
     jwt |->
        [source |-> Cat(<<Bol, Plus(Chr(Upper \cup Lower \cup Digit \cup {"-", "_"})),
                             Lit("."),
                             Plus(Chr(Upper \cup Lower \cup Digit \cup {"-", "_"})),
                             Lit("."),
                             Star(Chr(Upper \cup Lower \cup Digit \cup {"-", "_"})), Eol>>),
         flags |-> {}],
     \* 36: /^(?:[a-zA-Z0-9](?:[a-zA-Z0-9-]{0,61}[a-zA-Z0-9])?\.)+[a-zA-Z]{2,}$/
     domain |->
        [source |-> Cat(<<Bol,
                             Plus(Cat(<<Chr(Lower \cup Upper \cup Digit),
                                        Opt(Cat(<<Rep(Chr(Lower \cup Upper \cup Digit \cup {"-"}), 0, 61),
                                                  Chr(Lower \cup Upper \cup Digit)>>)),
                                        Lit(".")>>)),
                             Rep(Chr(Lower \cup Upper), 2, Inf), Eol>>),
         flags |-> {}],
     \* 37: /^(0|[1-9]\d*)\.(0|[1-9]\d*)\.(0|[1-9]\d*)(?:-((?:0|[1-9]\d*|\d*[a- .../
     semver |->
        [source |-> Cat(<<Bol,
                             Alt(<<Lit("0"),
                                   Cat(<<Chr(CharRange("1", "9")), Star(Chr(Digit))>>)>>),
                             Lit("."),
                             Alt(<<Lit("0"),
                                   Cat(<<Chr(CharRange("1", "9")), Star(Chr(Digit))>>)>>),
                             Lit("."),
                             Alt(<<Lit("0"),
                                   Cat(<<Chr(CharRange("1", "9")), Star(Chr(Digit))>>)>>),
                             Opt(Cat(<<Lit("-"),
                                       Cat(<<Alt(<<Lit("0"),
                                                   Cat(<<Chr(CharRange("1", "9")),
                                                         Star(Chr(Digit))>>),
                                                   Cat(<<Star(Chr(Digit)),
                                                         Chr(Lower \cup Upper \cup {"-"}),
                                                         Star(Chr(Digit \cup Lower \cup Upper \cup {"-"}))>>)>>),
                                             Star(Cat(<<Lit("."),
                                                        Alt(<<Lit("0"),
                                                              Cat(<<Chr(CharRange("1", "9")),
                                                                    Star(Chr(Digit))>>),
                                                              Cat(<<Star(Chr(Digit)),
                                                                    Chr(Lower \cup Upper \cup {"-"}),
                                                                    Star(Chr(Digit \cup Lower \cup Upper \cup {"-"}))>>)>>)>>))>>)>>)),
                             Opt(Cat(<<Lit("+"),
                                       Cat(<<Plus(Chr(Digit \cup Lower \cup Upper \cup {"-"})),
                                             Star(Cat(<<Lit("."),
                                                        Plus(Chr(Digit \cup Lower \cup Upper \cup {"-"}))>>))>>)>>)),
                             Eol>>),
         flags |-> {}],
     \* 38: /^(?:\+?([1-9]\d{0,2}))?[-.\s]?\(?\d{2,4}\)?[-.\s]?\d{6,10}$/
     phone |->
        [source |-> Cat(<<Bol,
                             Opt(Cat(<<Opt(Lit("+")),
                                       Cat(<<Chr(CharRange("1", "9")), Rep(Chr(Digit), 0, 2)>>)>>)),
                             Opt(Chr(Whitespace \cup {"-", "."})), Opt(Lit("(")),
                             Rep(Chr(Digit), 2, 4), Opt(Lit(")")),
                             Opt(Chr(Whitespace \cup {"-", "."})), Rep(Chr(Digit), 6, 10),
                             Eol>>),
         flags |-> {}],
     \* 39: /^(?:4[0-9]{12}(?:[0-9]{3})?|5[1-5][0-9]{14}|3[47][0-9]{13}|6(?:011 .../
     creditCard |->
        [source |-> Cat(<<Bol,
                             Alt(<<Cat(<<Lit("4"), Rep(Chr(Digit), 12, 12),
                                         Opt(Rep(Chr(Digit), 3, 3))>>),
                                   Cat(<<Lit("5"), Chr(CharRange("1", "5")),
                                         Rep(Chr(Digit), 14, 14)>>),
                                   Cat(<<Lit("3"), Chr({"4", "7"}), Rep(Chr(Digit), 13, 13)>>),
                                   Cat(<<Lit("6"),
                                         Alt(<<Word(<<"0", "1", "1">>),
                                               Cat(<<Lit("5"), Rep(Chr(Digit), 2, 2)>>)>>),
                                         Rep(Chr(Digit), 12, 12)>>)>>),
                             Eol>>),
         flags |-> {}],
     \* 40: /^(?!000|666|9\d{2})\d{3}-(?!00)\d{2}-(?!0000)\d{4}$/
     ssn |->
        [source |-> Cat(<<Bol,
                             NegLookAhead(Alt(<<Word(<<"0", "0", "0">>),
                                                Word(<<"6", "6", "6">>),
                                                Cat(<<Lit("9"), Rep(Chr(Digit), 2, 2)>>)>>)),
                             Rep(Chr(Digit), 3, 3), Lit("-"),
                             NegLookAhead(Word(<<"0", "0">>)), Rep(Chr(Digit), 2, 2),
                             Lit("-"), NegLookAhead(Word(<<"0", "0", "0", "0">>)),
                             Rep(Chr(Digit), 4, 4), Eol>>),
         flags |-> {}],
     \* 41: /^(?:\d[- ]?){9}[\dXx]$|^(?:\d[- ]?){13}$/
     isbn |->
        [source |-> Alt(<<Cat(<<Bol, Rep(Cat(<<Chr(Digit), Opt(Chr({"-", " "}))>>), 9, 9),
                                   Chr(Digit \cup {"X", "x"}), Eol>>),
                             Cat(<<Bol,
                                   Rep(Cat(<<Chr(Digit), Opt(Chr({"-", " "}))>>), 13, 13),
                                   Eol>>)>>),
         flags |-> {}],
     \* 42: /^(?:[01]\d|2[0-3]):[0-5]\d(:[0-5]\d)?( ?(?:AM|PM))?$/i
     time |->
        [source |-> Cat(<<Bol,
                             Alt(<<Cat(<<Chr({"0", "1"}), Chr(Digit)>>),
                                   Cat(<<Lit("2"), Chr(CharRange("0", "3"))>>)>>),
                             Lit(":"), Chr(CharRange("0", "5")), Chr(Digit),
                             Opt(Cat(<<Lit(":"), Chr(CharRange("0", "5")), Chr(Digit)>>)),
                             Opt(Cat(<<Opt(Lit(" ")),
                                       Alt(<<Word(<<"A", "M">>), Word(<<"P", "M">>)>>)>>)),
                             Eol>>),
         flags |-> {"i"}],
     \* 43: /^\d+$/
     positiveInteger |->
        [source |-> Cat(<<Bol, Plus(Chr(Digit)), Eol>>),
         flags |-> {}],
     \* 44: /^-\d+$/
     negativeInteger |->
        [source |-> Cat(<<Bol, Lit("-"), Plus(Chr(Digit)), Eol>>),
         flags |-> {}],
     \* 45: /^-?[1-9]\d*$/
     nonZeroInteger |->
        [source |-> Cat(<<Bol, Opt(Lit("-")), Chr(CharRange("1", "9")), Star(Chr(Digit)),
                             Eol>>),
         flags |-> {}],
     \* 46: /^-?\d+(\.\d+)?$/
     float |->
        [source |-> Cat(<<Bol, Opt(Lit("-")), Plus(Chr(Digit)),
                             Opt(Cat(<<Lit("."), Plus(Chr(Digit))>>)), Eol>>),
         flags |-> {}],
     \* 47: /^\d+(\.\d+)?$/
     positiveFloat |->
        [source |-> Cat(<<Bol, Plus(Chr(Digit)), Opt(Cat(<<Lit("."), Plus(Chr(Digit))>>)),
                             Eol>>),
         flags |-> {}],
     \* 48: /^-\d+(\.\d+)?$/
     negativeFloat |->
        [source |-> Cat(<<Bol, Lit("-"), Plus(Chr(Digit)),
                             Opt(Cat(<<Lit("."), Plus(Chr(Digit))>>)), Eol>>),
         flags |-> {}],
     \* 49: /^[a-zA-Z0-9]+$/
     alphanumeric |->
        [source |-> Cat(<<Bol, Plus(Chr(Lower \cup Upper \cup Digit)), Eol>>),
         flags |-> {}],
     \* 50: /^[0-9a-fA-F]+$/
     hexadecimal |->
        [source |-> Cat(<<Bol,
                             Plus(Chr(Digit \cup CharRange("a", "f") \cup CharRange("A", "F"))),
                             Eol>>),
         flags |-> {}],
     \* 51: /^[01]+$/
     binary |->
        [source |-> Cat(<<Bol, Plus(Chr({"0", "1"})), Eol>>),
         flags |-> {}],
     \* 52: /^[a-f0-9]{32}$/i
     md5 |->
        [source |-> Cat(<<Bol, Rep(Chr(CharRange("a", "f") \cup Digit), 32, 32), Eol>>),
         flags |-> {"i"}],
     \* 53: /^[a-f0-9]{40}$/i
     sha1 |->
        [source |-> Cat(<<Bol, Rep(Chr(CharRange("a", "f") \cup Digit), 40, 40), Eol>>),
         flags |-> {"i"}],
     \* 54: /^[a-f0-9]{64}$/i
     sha256 |->
        [source |-> Cat(<<Bol, Rep(Chr(CharRange("a", "f") \cup Digit), 64, 64), Eol>>),
         flags |-> {"i"}],
     \* 55: /<\/?[a-z][^>]*>/i
     htmlTag |->
        [source |-> Cat(<<Lit("<"), Opt(Lit("/")), Chr(Lower), Star(NotChr({">"})),
                             Lit(">")>>),
         flags |-> {"i"}],
     \* 56: /^(?:[a-zA-Z]:)?(?:\/|\\)?(?:[^\\/:*?"<>|\r\n]+(?:\/|\\)?)+$/
     filePath |->
        [source |-> Cat(<<Bol, Opt(Cat(<<Chr(Lower \cup Upper), Lit(":")>>)),
                             Opt(Alt(<<Lit("/"), Lit("\\")>>)),
                             Plus(Cat(<<Plus(NotChr({"\\", "/", ":", "*", "?", "\"", "<", ">", "|", "\r", "\n"})),
                                        Opt(Alt(<<Lit("/"), Lit("\\")>>))>>)),
                             Eol>>),
         flags |-> {}],
     \* 57: /^[^\\/:*?"<>|\r\n]+\.[^\\/:*?"<>|\r\n]+$/
     fileName |->
        [source |-> Cat(<<Bol,
                             Plus(NotChr({"\\", "/", ":", "*", "?", "\"", "<", ">", "|", "\r", "\n"})),
                             Lit("."),
                             Plus(NotChr({"\\", "/", ":", "*", "?", "\"", "<", ">", "|", "\r", "\n"})),
                             Eol>>),
         flags |-> {}],
     \* 58: /^[a-z][a-z0-9]*(?:-[a-z0-9]+)*$/
     kebabCase |->
        [source |-> Cat(<<Bol, Chr(Lower), Star(Chr(Lower \cup Digit)),
                             Star(Cat(<<Lit("-"), Plus(Chr(Lower \cup Digit))>>)), Eol>>),
         flags |-> {}],
     \* 59: /^[a-z][a-zA-Z0-9]*$/
     camelCase |->
        [source |-> Cat(<<Bol, Chr(Lower), Star(Chr(Lower \cup Upper \cup Digit)), Eol>>),
         flags |-> {}],
     \* 60: /^[a-z][a-z0-9]*(?:_[a-z0-9]+)*$/
     snakeCase |->
        [source |-> Cat(<<Bol, Chr(Lower), Star(Chr(Lower \cup Digit)),
                             Star(Cat(<<Lit("_"), Plus(Chr(Lower \cup Digit))>>)), Eol>>),
         flags |-> {}],
     \* 61: /^[A-Z][a-zA-Z0-9]*$/
     pascalCase |->
        [source |-> Cat(<<Bol, Chr(Upper), Star(Chr(Lower \cup Upper \cup Digit)), Eol>>),
         flags |-> {}]]
\* the rule objects the field initialiser creates for instance self
FlatRules(self) ==
    [k \in DOMAIN FlatLiterals |->
        RegExp(<<self, k>>, FlatLiterals[k].source, FlatLiterals[k].flags)]
\* the table with onlyIntegers written /^-?\d+$/g, and with binary written /^[01]+$/y
patternsGlobal(self) ==
    [FlatRules(self) EXCEPT !.onlyIntegers = RegExp(@.id, @.source, {"g"})]
patternsSticky(self) ==
    [FlatRules(self) EXCEPT !.binary = RegExp(@.id, @.source, {"y"})]
\* the table with the onlyAlpha rule taking any number of letters: /^[a-zA-Z]*$/
patternsAnyLength(self) ==
    [FlatRules(self) EXCEPT !.onlyAlpha =
        RegExp(@.id, Anchored(<<Star(Chr(Upper \cup Lower))>>), @.flags)]
\* the table with the ipv4 rule taking any one to three digits a group:
\* /^(\d{1,3}\.){3}\d{1,3}$/
patternsAnyOctet(self) ==
    [FlatRules(self) EXCEPT !.ipv4 =
        RegExp(@.id,
               Anchored(<<Rep(Cat(<<Rep(Chr(Digit), 1, 3), Lit(".")>>), 3, 3),
                          Rep(Chr(Digit), 1, 3)>>),
               @.flags)]
\* the table with the url rule taking any scheme of lower-case letters:
\* /^([a-z]+:\/\/)(localhost| ... $/
patternsAnyScheme(self) ==
    [FlatRules(self) EXCEPT !.url =
        RegExp(@.id,
               Cat([@.source.l EXCEPT ![2] = Cat(<<Plus(Chr(Lower)), Word(<<":", "/", "/">>)>>)]),
               @.flags)]
\* the table with the email rule taking one letter after the last dot:
\* /^[a-zA-Z0-9._%+-]+@[a-zA-Z0-9.-]+\.[a-zA-Z]+$/
patternsShortTld(self) ==
    [FlatRules(self) EXCEPT !.email =
        RegExp(@.id,
               Cat([@.source.l EXCEPT ![Len(@.source.l) - 1] = Plus(Chr(Lower \cup Upper))]),
               @.flags)]
\* the table with the isbn rule open at the end of its first alternative
patternsOpenIsbn(self) ==
    [FlatRules(self) EXCEPT !.isbn = RegExp(@.id, IsbnOpenEnded, @.flags)]
patterns(self) == FlatRules(self)
complexPatterns(self) ==
    [postalCode |->
        [US |-> RegExp(<<self, "postalCode.US">>,
                       Anchored(<<Rep(Chr(Digit), 5, 5),
                                  Opt(Cat(<<Lit("-"), Rep(Chr(Digit), 4, 4)>>))>>), {}),
         UK |-> RegExp(<<self, "postalCode.UK">>,
                       Anchored(<<Rep(Chr(Upper), 1, 2), Chr(Digit),
                                  Opt(Chr(Upper \cup Digit)), Opt(Lit(" ")), Chr(Digit),
                                  Rep(Chr(Upper), 2, 2)>>), {"i"}),
         CA |-> RegExp(<<self, "postalCode.CA">>,
                       Anchored(<<Chr(CaFirst), Chr(Digit), Chr(CaLetter), Opt(Lit(" ")),
                                  Chr(Digit), Chr(CaLetter), Chr(Digit)>>), {"i"}),
         ANY |-> RegExp(<<self, "postalCode.ANY">>,
                        Anchored(<<Rep(Chr(Upper \cup Digit), 3, 10)>>), {"i"})],
     crypto |->
        [BTC |-> RegExp(<<self, "crypto.BTC">>,
                        Anchored(<<Chr({"1", "3"}), Rep(Chr(Base58), 25, 34)>>), {}),
         ETH |-> RegExp(<<self, "crypto.ETH">>,
                        Anchored(<<Word(<<"0", "x">>), Rep(Chr(HexDigit), 40, 40)>>), {})],
     password |->
        [simple |-> RegExp(<<self, "password.simple">>, Anchored(<<Rep(Dot, 6, Inf)>>), {}),
         medium |-> RegExp(<<self, "password.medium">>, Anchored(<<Rep(Dot, 8, Inf)>>), {}),
         complex |-> RegExp(<<self, "password.complex">>, PasswordComplexSource, {})],
     coordinates |->
        [latitude |-> RegExp(<<self, "coordinates.latitude">>, LatitudeSource, {}),
         longitude |-> RegExp(<<self, "coordinates.longitude">>, LongitudeSource, {})]]
\* the identities of the catalog rules of instance self
CatalogIds(self) ==
    {patterns(self)[k].id : k \in DOMAIN patterns(self)}
    \cup UNION {{complexPatterns(self)[f][k].id : k \in DOMAIN complexPatterns(self)[f]} :
                f \in DOMAIN complexPatterns(self)}

(***************************************************************************)
(* Property lookup table[key] on an object literal: an own property, else  *)
(* what the key finds on Object.prototype, else undefined.                 *)
(***************************************************************************)
ObjectPrototypeMethods ==
    {"constructor", "toString", "toLocaleString", "valueOf", "hasOwnProperty",
     "isPrototypeOf", "propertyIsEnumerable"}
GetProp(table, key) ==
    IF key \in DOMAIN table THEN table[key]
    ELSE IF key \in ObjectPrototypeMethods THEN Function(key)
    ELSE IF key = "__proto__" THEN [t |-> "object", class |-> "Object"]
    ELSE Undefined
\* a string argument used as a property key; undefined converts to 'undefined'
Key(x) == IF x = Undefined THEN "undefined" ELSE x.v
Name(s) == [t |-> "string", v |-> s]

(***************************************************************************)
(* new RegExp(source) for the pattern text isStrongPassword assembles:     *)
(* assertions ^ $ (?=...), the dot, \d, classes with ranges, literal       *)
(* characters and the quantifiers * + ? {n,}.  A brace that opens no       *)
(* well-formed quantifier is a literal character.                          *)
(***************************************************************************)
RECURSIVE DigitsValue(_, _)
DigitsValue(ds, acc) ==
    IF ds = <<>> THEN acc ELSE DigitsValue(Tail(ds), 10 * acc + (CodeOf[Head(ds)] - CodeOf["0"]))
\* the position of the first character from i on that is not a digit
DigitsEnd(src, i) ==
    CHOOSE j \in i..(Len(src) + 1) :
        /\ \A k \in i..(j - 1) : src[k] \in Digit
        /\ (j > Len(src) \/ src[j] \notin Digit)
RECURSIVE ParseClass(_, _, _)
ParseClass(src, i, acc) ==
    IF src[i] = "]" THEN [set |-> acc, next |-> i + 1]
    ELSE IF i + 2 <= Len(src) /\ src[i + 1] = "-" /\ src[i + 2] # "]"
    THEN ParseClass(src, i + 3, acc \cup CharRange(src[i], src[i + 2]))
    ELSE IF src[i] = "\\" /\ src[i + 1] = "d" THEN ParseClass(src, i + 2, acc \cup Digit)
    ELSE IF src[i] = "\\" THEN ParseClass(src, i + 2, acc \cup {src[i + 1]})
    ELSE ParseClass(src, i + 1, acc \cup {src[i]})
\* the quantifier at position i, if one is there: [lo, hi, next] or next = i
ParseQuantifier(src, i) ==
    IF i > Len(src) THEN [lo |-> 1, hi |-> 1, next |-> i]
    ELSE IF src[i] = "*" THEN [lo |-> 0, hi |-> Inf, next |-> i + 1]
    ELSE IF src[i] = "+" THEN [lo |-> 1, hi |-> Inf, next |-> i + 1]
    ELSE IF src[i] = "?" THEN [lo |-> 0, hi |-> 1, next |-> i + 1]
    ELSE IF src[i] = "{"
    THEN LET e == DigitsEnd(src, i + 1)
             n == DigitsValue(SubSeq(src, i + 1, e - 1), 0)
         IN  IF e > i + 1 /\ e + 1 <= Len(src) /\ src[e] = "," /\ src[e + 1] = "}"
             THEN [lo |-> n, hi |-> Inf, next |-> e + 2]
             ELSE IF e > i + 1 /\ e <= Len(src) /\ src[e] = "}"
             THEN [lo |-> n, hi |-> n, next |-> e + 1]
             ELSE [lo |-> 1, hi |-> 1, next |-> i]
    ELSE [lo |-> 1, hi |-> 1, next |-> i]
RECURSIVE ParseSeq(_, _, _)
RECURSIVE ParseAtom(_, _)
ClassAtom(cl) == [node |-> Chr(cl.set), next |-> cl.next]
GroupAtom(inner) == [node |-> LookAhead(Cat(inner.nodes)), next |-> inner.next + 1]
ParseAtom(src, i) ==
    CASE src[i] = "^" -> [node |-> Bol, next |-> i + 1]
      [] src[i] = "$" -> [node |-> Eol, next |-> i + 1]
      [] src[i] = "." -> [node |-> Dot, next |-> i + 1]
      [] src[i] = "\\" -> [node |-> IF src[i + 1] = "d" THEN Chr(Digit) ELSE Lit(src[i + 1]),
                           next |-> i + 2]
      [] src[i] = "[" -> ClassAtom(ParseClass(src, i + 1, {}))
      [] src[i] = "(" -> GroupAtom(ParseSeq(src, i + 3, <<>>))
      [] OTHER -> [node |-> Lit(src[i]), next |-> i + 1]
Quantified(a, q) == IF q.next = a.next THEN a.node ELSE Rep(a.node, q.lo, q.hi)
RECURSIVE ParseTerm(_, _, _)
RECURSIVE ParseRest(_, _, _, _)
ParseSeq(src, i, acc) ==
    IF i > Len(src) \/ src[i] = ")" THEN [nodes |-> acc, next |-> i]
    ELSE ParseTerm(src, acc, ParseAtom(src, i))
ParseTerm(src, acc, a) == ParseRest(src, acc, a, ParseQuantifier(src, a.next))
ParseRest(src, acc, a, q) == ParseSeq(src, q.next, Append(acc, Quantified(a, q)))
NewRegExp(src) == RegExp(Fresh, Cat(ParseSeq(src, 1, <<>>).nodes), {})

\* Number::toString for an integer, and ToString(undefined), as characters
RECURSIVE NatToString(_)
NatToString(n) ==
    IF n < 10 THEN <<Ascii[CodeOf["0"] + n]>>
    ELSE Append(NatToString(n \div 10), Ascii[CodeOf["0"] + (n % 10)])
JsToString(x) ==
    CASE x.t = "number" -> IF x.v < 0 THEN <<"-">> \o NatToString(0 - x.v) ELSE NatToString(x.v)
      [] x.t = "undefined" -> <<"u", "n", "d", "e", "f", "i", "n", "e", "d">>
      [] x.t = "boolean" -> IF x.v THEN <<"t", "r", "u", "e">> ELSE <<"f", "a", "l", "s", "e">>

(***************************************************************************)
(* The public operations.  heap holds the lastIndex of every rule object   *)
(* that outlives a call; clock holds the elapsed time each validate call   *)
(* of the operation reads; each returns [ret, heap].                       *)
(***************************************************************************)
isValid(heap, options, value, pattern, mode, clock) ==
    validateOn(heap, options, value, pattern, mode, clock[1])
isInteger(self, heap, options, value, mode, clock) ==
    validateOn(heap, options, value, patterns(self).onlyIntegers, mode, clock[1])
isBinary(self, heap, options, value, mode, clock) ==
    validateOn(heap, options, value, patterns(self).binary, mode, clock[1])
containsHtmlTag(self, heap, options, value, mode, clock) ==
    validateOn(heap, options, value, patterns(self).htmlTag, mode, clock[1])
\* lines 139-289: the methods that hand validate one rule of patterns, each
\* with the key of its rule (isInteger, isBinary and containsHtmlTag are above)
FlatOperations ==
    [isValidEmail |-> "email",
     isValidIPv4 |-> "ipv4",
     isValidIPv6 |-> "ipv6",
     isValidMacAddress |-> "macAddress",
     isValidUrl |-> "url",
     isValidUsername |-> "username",
     isValidHexColor |-> "hexColor",
     isAlpha |-> "onlyAlpha",
     isEmoji |-> "emoji",
     isAnsiArt |-> "ansiArt",
     isValidJwt |-> "jwt",
     isValidDomain |-> "domain",
     isValidSemver |-> "semver",
     isValidPhoneNumber |-> "phone",
     isValidCreditCard |-> "creditCard",
     isValidSSN |-> "ssn",
     isValidISBN |-> "isbn",
     isValidTime |-> "time",
     isPositiveInteger |-> "positiveInteger",
     isNegativeInteger |-> "negativeInteger",
     isNonZeroInteger |-> "nonZeroInteger",
     isFloat |-> "float",
     isPositiveFloat |-> "positiveFloat",
     isNegativeFloat |-> "negativeFloat",
     isAlphanumeric |-> "alphanumeric",
     isHexadecimal |-> "hexadecimal",
     isValidMD5 |-> "md5",
     isValidSHA1 |-> "sha1",
     isValidSHA256 |-> "sha256",
     isValidFilePath |-> "filePath",
     isValidFileName |-> "fileName",
     isKebabCase |-> "kebabCase",
     isCamelCase |-> "camelCase",
     isSnakeCase |-> "snakeCase",
     isPascalCase |-> "pascalCase"]
Flat(self, op, heap, options, value, mode, clock) ==
    validateOn(heap, options, value, patterns(self)[FlatOperations[op]], mode, clock[1])
isValidPassword(self, heap, options, password, level, mode, clock) ==
    LET lv == IF level = Undefined THEN Name("medium") ELSE level
    IN  validateOn(heap, options, password,
                   GetProp(complexPatterns(self).password, Key(lv)), mode, clock[1])
\* a lookup that falls back to the ANY rule: postalCode[country] || postalCode.ANY
isValidPostalCodeOrAny(self, heap, options, code, country, mode, clock) ==
    validateOn(heap, options, code,
               JsOr(GetProp(complexPatterns(self).postalCode, Key(country)),
                    complexPatterns(self).postalCode.ANY), mode, clock[1])
isValidPostalCode(self, heap, options, code, country, mode, clock) ==
    validateOn(heap, options, code,
               GetProp(complexPatterns(self).postalCode, Key(country)), mode, clock[1])
isValidCryptoAddress(self, heap, options, address, type, mode, clock) ==
    validateOn(heap, options, address,
               GetProp(complexPatterns(self).crypto, Key(type)), mode, clock[1])
\* typeof latValid === 'boolean'
\*     ? latValid && typeof lngValid === 'boolean' ? lngValid : false
\*     : false
\* two other ways to combine the checks: latValid && lngValid without the
\* typeof tests, and latValid || lngValid
CombineUntyped(latValid, lngValid) == JsAnd(latValid, lngValid)
CombineEither(latValid, lngValid) == JsOr(latValid, lngValid)
CombineCoordinates(latValid, lngValid) ==
    IF TypeOf(latValid) = "boolean"
    THEN IF Truthy(JsAnd(latValid, Bool(TypeOf(lngValid) = "boolean")))
         THEN lngValid
         ELSE Bool(FALSE)
    ELSE Bool(FALSE)
\* a verbose outcome that also carries a matches field, as validate's does
CoordinatesResultWithMatches(mode, combined, heap) ==
    [ret |-> IF mode = Verbose
             THEN [t |-> "object", isValid |-> combined, matches |-> Null,
                   message |-> <<"Both latitude and longitude must be valid">>]
             ELSE combined,
     heap |-> heap]
CoordinatesResult(mode, combined, heap) ==
    [ret |-> IF mode = Verbose
             THEN [t |-> "object", isValid |-> combined,
                   message |-> <<"Both latitude and longitude must be valid">>]
             ELSE combined,
     heap |-> heap]
\* a is the outcome of the latitude check, b of the longitude check
CoordinatesAfterLng(mode, a, b) ==
    CoordinatesResult(mode, CombineCoordinates(a.ret, b.ret), b.heap)
CoordinatesAfterLat(self, options, lng, mode, clock, a) ==
    CoordinatesAfterLng(mode, a,
        validateOn(a.heap, options, lng,
                   complexPatterns(self).coordinates.longitude, mode, clock[2]))
isValidCoordinates(self, heap, options, lat, lng, mode, clock) ==
    CoordinatesAfterLat(self, options, lng, mode, clock,
        validateOn(heap, options, lat,
                   complexPatterns(self).coordinates.latitude, mode, clock[1]))
\* a day written \d{2}
AnyTwoDigits == Rep(Chr(Digit), 2, 2)
Day == Alt(<<Cat(<<Lit("0"), Chr(CharRange("1", "9"))>>),
             Cat(<<Chr({"1", "2"}), Chr(Digit)>>),
             Cat(<<Lit("3"), Chr({"0", "1"})>>)>>)
Month == Alt(<<Cat(<<Lit("0"), Chr(CharRange("1", "9"))>>),
               Cat(<<Lit("1"), Chr(CharRange("0", "2"))>>)>>)
Year == Rep(Chr(Digit), 4, 4)
\* the table local to isValidDate: four rules created by the call
DatePatterns ==
    [k \in {"DD/MM/YYYY", "MM/DD/YYYY", "YYYY-MM-DD", "YYYY/MM/DD"} |->
        RegExp(Fresh,
               CASE k = "DD/MM/YYYY" -> Anchored(<<Day, Lit("/"), Month, Lit("/"), Year>>)
                 [] k = "MM/DD/YYYY" -> Anchored(<<Month, Lit("/"), Day, Lit("/"), Year>>)
                 [] k = "YYYY-MM-DD" -> Anchored(<<Year, Lit("-"), Month, Lit("-"), Day>>)
                 [] k = "YYYY/MM/DD" -> Anchored(<<Year, Lit("/"), Month, Lit("/"), Day>>),
               {})]
isValidDate(heap, options, date, format, mode, clock) ==
    LET fmt == IF format = Undefined THEN Name("DD/MM/YYYY") ELSE format
    IN  validateOn(heap, options, date,
                   JsOr(GetProp(DatePatterns, Key(fmt)), DatePatterns["DD/MM/YYYY"]),
                   mode, clock[1])
\* /^[0-9a-f]{8}-[0-9a-f]{4}-[1-5][0-9a-f]{3}-[89ab][0-9a-f]{3}-[0-9a-f]{12}$/i
LowerHex == Digit \cup CharRange("a", "f")
UuidGroups(version, variant) ==
    Anchored(<<Rep(Chr(LowerHex), 8, 8), Lit("-"), Rep(Chr(LowerHex), 4, 4), Lit("-"),
               Chr(version), Rep(Chr(LowerHex), 3, 3), Lit("-"),
               Chr(variant), Rep(Chr(LowerHex), 3, 3), Lit("-"),
               Rep(Chr(LowerHex), 12, 12)>>)
\* the rule with [0-9a-f] where the version digit stands
UuidAnyVersion == UuidGroups(LowerHex, {"8", "9", "a", "b"})
UuidSource == UuidGroups(CharRange("1", "5"), {"8", "9", "a", "b"})
isValidUUID(heap, options, uuid, mode, clock) ==
    validateOn(heap, options, uuid, RegExp(Fresh, UuidSource, {"i"}), mode, clock[1])
PolicyDefaults ==
    [minLength |-> Num(8), requireUppercase |-> Bool(TRUE),
     requireNumbers |-> Bool(TRUE), requireSpecialChars |-> Bool(TRUE)]
\* the pattern text assembled from the merged policy
StrongPasswordPattern(opts) ==
    <<"^">>
    \o (IF Truthy(opts.requireUppercase)
        THEN <<"(", "?", "=", ".", "*", "[", "A", "-", "Z", "]", ")">> ELSE <<>>)
    \o (IF Truthy(opts.requireNumbers)
        THEN <<"(", "?", "=", ".", "*", "\\", "d", ")">> ELSE <<>>)
    \o (IF Truthy(opts.requireSpecialChars)
        THEN <<"(", "?", "=", ".", "*", "[", "!", "@", "#", "$", "%", "^", "&", "*", "]", ")">>
        ELSE <<>>)
    \o <<".", "{">> \o JsToString(opts.minLength) \o <<",", "}", "$">>
isStrongPassword(heap, options, password, policy, mode, clock) ==
    LET opts == Spread(PolicyDefaults, IF policy = Undefined THEN <<>> ELSE policy)
    IN  validateOn(heap, options, password, NewRegExp(StrongPasswordPattern(opts)),
                   mode, clock[1])
\* lines 387-390 and 392-395: a rule object made by each call
isValidSlug(heap, options, slug, mode, clock) ==
    validateOn(heap, options, slug, RegExp(Fresh, SlugSource, {}), mode, clock[1])
isBase64(heap, options, base64, mode, clock) ==
    validateOn(heap, options, base64, RegExp(Fresh, Base64Source, {}), mode, clock[1])

(***************************************************************************)
(* The constructor (regExp.ts:86-94).                                      *)
(***************************************************************************)
OptionDefaults ==
    [timeout |-> Num(DefaultTimeout), caseSensitive |-> Bool(TRUE),
     multiline |-> Bool(FALSE), unicode |-> Bool(TRUE)]
\* the spread written first: { ...options, timeout: 5000, ... }
ConstructorDefaultsLast(given) ==
    Spread(IF given = Undefined THEN <<>> ELSE given, OptionDefaults)
Constructor(given) == Spread(OptionDefaults, IF given = Undefined THEN <<>> ELSE given)

(***************************************************************************)
(* The state: two validator instances and the rule objects the caller      *)
(* keeps, called by one synchronous caller.                                *)
(***************************************************************************)
VARIABLES
    given,      \* given[i]: the argument instance i was constructed with
    options,    \* options[i]: the options field of instance i
    heap,       \* heap[id]: the lastIndex of the rule object with identity id
    pc,         \* "idle", or "returned": the caller holds the result of call
    call,       \* the call that returned last: [op, self, args, mode, clock]
    result      \* what it returned
vars == <<given, options, heap, pc, call, result>>

Instances == {1, 2}
\* the arguments the instances are constructed with
GivenOptions ==
    {Undefined,
     [timeout |-> Num(1)],
     [timeout |-> Num(0)],
     [timeout |-> Num(0 - 1)],
     [timeout |-> Undefined, caseSensitive |-> Bool(FALSE), multiline |-> Bool(TRUE),
      unicode |-> Bool(FALSE)]}
\* elapsed times the guard can read: none, a short stall, a long one
Elapsed == {0, 2, 5001}
Modes == {Undefined, Verbose}
AnyModes == Modes \cup {Name("debug")}
\* rule objects of the caller: /^\d+$/, /a/g, /ab/y and the unanchored /b/
Digits == RegExp(<<0, "digits">>, Anchored(<<Plus(Chr(Digit))>>), {})
GlobalA == RegExp(<<0, "globalA">>, Lit("a"), {"g"})
StickyAb == RegExp(<<0, "stickyAb">>, Word(<<"a", "b">>), {"y"})
CallerRules == {Digits, GlobalA, StickyAb}
\* what a caller can hand to isValid in place of a rule
NotRules == {Undefined, Name("^a$")}
RuleValues == {<<>>, <<"a", "b">>, <<"4", "2">>}
NoCall == [op |-> "none", self |-> 0, args |-> <<>>, mode |-> Undefined, clock |-> <<>>]

Init ==
    /\ \E g \in GivenOptions : given = [i \in Instances |-> IF i = 1 THEN g ELSE Undefined]
    /\ options = [i \in Instances |-> Constructor(given[i])]
    /\ heap = [id \in UNION {CatalogIds(i) : i \in Instances} \cup {R.id : R \in CallerRules}
                 |-> 0]
    /\ pc = "idle"
    /\ call = NoCall
    /\ result = Undefined

\* a call that also stores the budget it read: this.options.timeout ||= 5000
ReturnsStoringBudget(self, op, args, mode, clock, out) ==
    /\ pc = "idle"
    /\ pc' = "returned"
    /\ call' = [op |-> op, self |-> self, args |-> args, mode |-> mode, clock |-> clock]
    /\ result' = out.ret
    /\ heap' = out.heap
    /\ options' = [options EXCEPT ![self].timeout = JsOr(@, Num(DefaultTimeout))]
    /\ UNCHANGED given
\* the call op(args, mode) on instance self returns out.ret and leaves the rule
\* objects as out.heap has them
Returns(self, op, args, mode, clock, out) ==
    /\ pc = "idle"
    /\ pc' = "returned"
    /\ call' = [op |-> op, self |-> self, args |-> args, mode |-> mode, clock |-> clock]
    /\ result' = out.ret
    /\ heap' = out.heap
    /\ UNCHANGED <<given, options>>
\* the caller takes the result and goes on
Resume ==
    /\ pc = "returned"
    /\ pc' = "idle"
    /\ call' = NoCall
    /\ result' = Undefined
    /\ UNCHANGED <<given, options, heap>>

\* the inputs of the named operations
Text(n, c) == [i \in 1..n |-> c]
NumberValues == {<<"-", "7">>, <<"1", "0", "1">>, <<"x", "<", "B", ">", "y">>}
CoordValues == {<<"4", "5">>, <<"9", "1">>, <<"1", "8", "1">>}
CoordClocks == {<<0, 0>>, <<2, 0>>, <<0, 2>>, <<5001, 0>>}
DateValues ==
    {<<"3", "1", "/", "1", "2", "/", "2", "0", "2", "3">>,
     <<"2", "0", "2", "3", "-", "1", "2", "-", "3", "1">>}
DateFormats ==
    {Undefined, Name("DD/MM/YYYY"), Name("MM/DD/YYYY"), Name("YYYY-MM-DD"),
     Name("YYYY/MM/DD"), Name("BAD-FORMAT"), Name("constructor")}
Passwords ==
    {<<"P", "a", "s", "s", "w", "0", "r", "d", "!">>,
     <<"p", "a", "s", "s", "w", "o", "r", "d", "1", "2", "3">>,
     <<"s", "h", "o", "r", "t">>,
     <<"P", "a", "s", "s", "w", "0", "r", "d", "!", "\n">>}
Policies ==
    {Undefined,
     [minLength |-> Num(6), requireUppercase |-> Bool(FALSE),
      requireSpecialChars |-> Bool(FALSE)],
     [minLength |-> Num(1), requireNumbers |-> Bool(FALSE)],
     [minLength |-> Undefined],
     [minLength |-> Num(0 - 1), requireUppercase |-> Bool(FALSE),
      requireNumbers |-> Bool(FALSE), requireSpecialChars |-> Bool(FALSE)]}
Levels == {Undefined, Name("simple"), Name("medium"), Name("complex"), Name("extreme")}
PostalValues ==
    {<<"1", "2", "3", "4", "5">>, <<"S", "W", "1", "A", " ", "1", "A", "A">>,
     <<"k", "1", "a", "0", "b", "1">>}
Countries == {Name("US"), Name("UK"), Name("CA"), Name("ANY"), Name("DE")}
LitecoinAddress ==
    <<"L", "Q", "5", "y", "J", "g", "w", "o", "F", "k", "z", "U", "N", "6", "B", "i", "R", "6", "H", "f", "T", "F", "b", "C", "U", "v", "6", "P", "u", "6", "X", "K", "P", "8">>
Addresses == {<<"0", "x">> \o Text(40, "a"), <<"1">> \o Text(26, "B"), LitecoinAddress}
CoinTypes == {Name("BTC"), Name("ETH"), Name("LTC"), Name("constructor")}

IsValid(self) ==
    \E value \in RuleValues, pattern \in CallerRules \cup NotRules, mode \in AnyModes,
       e \in Elapsed :
        Returns(self, "isValid", <<value, pattern>>, mode, <<e>>,
                isValid(heap, options[self], value, pattern, mode, <<e>>))
IsInteger(self) ==
    \E value \in NumberValues, mode \in Modes, e \in Elapsed :
        Returns(self, "isInteger", <<value>>, mode, <<e>>,
                isInteger(self, heap, options[self], value, mode, <<e>>))
IsBinary(self) ==
    \E value \in NumberValues, mode \in Modes, e \in Elapsed :
        Returns(self, "isBinary", <<value>>, mode, <<e>>,
                isBinary(self, heap, options[self], value, mode, <<e>>))
ContainsHtmlTag(self) ==
    \E value \in NumberValues, mode \in Modes, e \in Elapsed :
        Returns(self, "containsHtmlTag", <<value>>, mode, <<e>>,
                containsHtmlTag(self, heap, options[self], value, mode, <<e>>))
IsValidPassword(self) ==
    \E password \in Passwords, level \in Levels, mode \in Modes, e \in Elapsed :
        Returns(self, "isValidPassword", <<password, level>>, mode, <<e>>,
                isValidPassword(self, heap, options[self], password, level, mode, <<e>>))
IsValidPostalCode(self) ==
    \E code \in PostalValues, country \in Countries, mode \in Modes, e \in Elapsed :
        Returns(self, "isValidPostalCode", <<code, country>>, mode, <<e>>,
                isValidPostalCode(self, heap, options[self], code, country, mode, <<e>>))
IsValidCryptoAddress(self) ==
    \E address \in Addresses, type \in CoinTypes, mode \in Modes, e \in Elapsed :
        Returns(self, "isValidCryptoAddress", <<address, type>>, mode, <<e>>,
                isValidCryptoAddress(self, heap, options[self], address, type, mode, <<e>>))
CallCoordinates(self, lats, lngs, modes, clocks) ==
    \E lat \in lats, lng \in lngs, mode \in modes, clock \in clocks :
        Returns(self, "isValidCoordinates", <<lat, lng>>, mode, clock,
                isValidCoordinates(self, heap, options[self], lat, lng, mode, clock))
IsValidCoordinates(self) == CallCoordinates(self, CoordValues, CoordValues, Modes, CoordClocks)
CallDate(self, dates, formats, modes, clocks) ==
    \E date \in dates, format \in formats, mode \in modes, clock \in clocks :
        Returns(self, "isValidDate", <<date, format>>, mode, clock,
                isValidDate(heap, options[self], date, format, mode, clock))
IsValidDate(self) == CallDate(self, DateValues, DateFormats, Modes, {<<e>> : e \in Elapsed})
CallStrongPassword(self, passwords, policies, modes, clocks) ==
    \E password \in passwords, policy \in policies, mode \in modes, clock \in clocks :
        Returns(self, "isStrongPassword", <<password, policy>>, mode, clock,
                isStrongPassword(heap, options[self], password, policy, mode, clock))
IsStrongPassword(self) ==
    CallStrongPassword(self, Passwords, Policies, Modes, {<<e>> : e \in Elapsed})

Next ==
    \/ Resume
    \/ \E self \in Instances :
        \/ IsValid(self)
        \/ IsInteger(self)
        \/ IsBinary(self)
        \/ ContainsHtmlTag(self)
        \/ IsValidPassword(self)
        \/ IsValidPostalCode(self)
        \/ IsValidCryptoAddress(self)
        \/ IsValidCoordinates(self)
        \/ IsValidDate(self)
        \/ IsStrongPassword(self)
Spec == Init /\ [][Next]_vars

(***************************************************************************)
(* The call c made on an instance whose rule objects are as hp has them    *)
(* and whose options are opts: the method of the class that c.op names.    *)
(***************************************************************************)
CallOutcome(hp, opts, c) ==
    CASE c.op = "isValid" -> isValid(hp, opts, c.args[1], c.args[2], c.mode, c.clock)
      [] c.op = "isInteger" -> isInteger(c.self, hp, opts, c.args[1], c.mode, c.clock)
      [] c.op = "isBinary" -> isBinary(c.self, hp, opts, c.args[1], c.mode, c.clock)
      [] c.op = "containsHtmlTag" ->
            containsHtmlTag(c.self, hp, opts, c.args[1], c.mode, c.clock)
      [] c.op = "isValidPassword" ->
            isValidPassword(c.self, hp, opts, c.args[1], c.args[2], c.mode, c.clock)
      [] c.op = "isValidPostalCode" ->
            isValidPostalCode(c.self, hp, opts, c.args[1], c.args[2], c.mode, c.clock)
      [] c.op = "isValidCryptoAddress" ->
            isValidCryptoAddress(c.self, hp, opts, c.args[1], c.args[2], c.mode, c.clock)
      [] c.op = "isValidCoordinates" ->
            isValidCoordinates(c.self, hp, opts, c.args[1], c.args[2], c.mode, c.clock)
      [] c.op = "isValidDate" -> isValidDate(hp, opts, c.args[1], c.args[2], c.mode, c.clock)
      [] c.op = "isValidUUID" -> isValidUUID(hp, opts, c.args[1], c.mode, c.clock)
      [] c.op = "isStrongPassword" ->
            isStrongPassword(hp, opts, c.args[1], c.args[2], c.mode, c.clock)
      [] c.op \in DOMAIN FlatOperations ->
            Flat(c.self, c.op, hp, opts, c.args[1], c.mode, c.clock)
      [] c.op = "isValidSlug" -> isValidSlug(hp, opts, c.args[1], c.mode, c.clock)
      [] c.op = "isBase64" -> isBase64(hp, opts, c.args[1], c.mode, c.clock)

(***************************************************************************)
(* Vocabulary of the properties.                                           *)
(***************************************************************************)
Returned == pc = "returned"
\* the guard of a check of the call tripped / no guard of the call tripped
Tripped(c, k) == GuardTrips(c.clock[k], options[c.self])
NoTimeout(c) == \A k \in 1..Len(c.clock) : ~Tripped(c, k)
\* the call hands the engine something that is not a usable pattern
UnknownKey(c) ==
    \/ c.op = "isValidPassword"
        /\ c.args[2] \notin {Undefined, Name("simple"), Name("medium"), Name("complex")}
    \/ c.op = "isValidPostalCode"
        /\ c.args[2] \notin {Name("US"), Name("UK"), Name("CA"), Name("ANY")}
    \/ c.op = "isValidCryptoAddress" /\ c.args[2] \notin {Name("BTC"), Name("ETH")}
Unusable(c) ==
    \/ c.op = "isValid" /\ c.args[2] \in NotRules
    \/ UnknownKey(c)
    \/ c.op = "isValidDate" /\ c.args[2] = Name("constructor")
FaultRaised(c) == NoTimeout(c) /\ Unusable(c)
Evaluated(c) == NoTimeout(c) /\ ~Unusable(c)
IsOutcome(r) == r.t = "object" /\ "isValid" \in DOMAIN r /\ r.isValid.t = "boolean"
MessageStarts(r, text) == "message" \in DOMAIN r /\ Head(r.message) = text

\* C1: whatever the operation, the value, the discriminator and the path, a
\* call whose mode is 'verbose' returns an object with a boolean isValid
\* field and a call with any other mode returns a plain boolean.
C1_OutputShape ==
    Returned => IF call.mode = Verbose THEN IsOutcome(result) ELSE result.t = "boolean"
\* a verbose coordinates call whose latitude check ran out of time
C1_Witness ==
    /\ Returned /\ call.op = "isValidCoordinates" /\ call.mode = Verbose
    /\ Tripped(call, 1) /\ ~Tripped(call, 2)
    /\ IsOutcome(result)

\* C2: the isValid field a named operation returns in verbose mode is the
\* boolean the same call returns in default mode.
C2_VerboseAgreesWithDefault ==
    (Returned /\ call.op # "isValid" /\ call.mode = Verbose) =>
        /\ IsOutcome(result)
        /\ result.isValid
             = CallOutcome(heap, options[call.self], [call EXCEPT !.mode = Undefined]).ret

\* C3: when the engine is handed something that is not a usable pattern, the
\* call still returns: false in default mode, and in verbose mode an outcome
\* with isValid false, a message that starts with 'Validation error: ' and
\* no match data.
C3_FaultsAreCaught ==
    (Returned /\ FaultRaised(call)) =>
        IF call.mode = Verbose
        THEN /\ IsOutcome(result)
             /\ result.isValid = Bool(FALSE)
             /\ MessageStarts(result, "Validation error: ")
             /\ "matches" \notin DOMAIN result
        ELSE result = Bool(FALSE)
\* a verbose call for a coin the catalog does not have
C3_Witness ==
    /\ Returned /\ call.op = "isValidCryptoAddress" /\ call.args[2] = Name("LTC")
    /\ call.mode = Verbose /\ FaultRaised(call)
    /\ MessageStarts(result, "Validation error: ")

\* C4: in verbose mode, when neither the guard nor a fault fires, either
\* isValid is true, the message is 'Validation successful' and matches is
\* not null, or isValid is false, the message is 'Validation failed' and
\* matches is null.
C4_VerboseOutcome ==
    (Returned /\ call.mode = Verbose /\ call.op # "isValidCoordinates" /\ Evaluated(call)) =>
        /\ IsOutcome(result)
        /\ "matches" \in DOMAIN result
        /\ \/ /\ result.isValid = Bool(TRUE)
              /\ result.message = <<"Validation successful">>
              /\ result.matches # Null
           \/ /\ result.isValid = Bool(FALSE)
              /\ result.message = <<"Validation failed">>
              /\ result.matches = Null

\* the calls of the named operations on instance self
NamedCall(self, op, args, mode, clock) ==
    [op |-> op, self |-> self, args |-> args, mode |-> mode, clock |-> clock]
Clocks == {<<e>> : e \in Elapsed}
NamedCalls(self) ==
    {NamedCall(self, op, <<v>>, m, k) :
        op \in {"isInteger", "isBinary", "containsHtmlTag"},
        v \in NumberValues, m \in Modes, k \in Clocks}
    \cup {NamedCall(self, "isValidPassword", <<v, d>>, m, k) :
            v \in Passwords, d \in Levels, m \in Modes, k \in Clocks}
    \cup {NamedCall(self, "isValidPostalCode", <<v, d>>, m, k) :
            v \in PostalValues, d \in Countries, m \in Modes, k \in Clocks}
    \cup {NamedCall(self, "isValidCryptoAddress", <<v, d>>, m, k) :
            v \in Addresses, d \in CoinTypes, m \in Modes, k \in Clocks}
    \cup {NamedCall(self, "isValidCoordinates", <<v, w>>, m, k) :
            v \in CoordValues, w \in CoordValues, m \in Modes, k \in CoordClocks}
    \cup {NamedCall(self, "isValidDate", <<v, d>>, m, k) :
            v \in DateValues, d \in DateFormats, m \in Modes, k \in Clocks}
    \cup {NamedCall(self, "isStrongPassword", <<v, d>>, m, k) :
            v \in Passwords, d \in Policies, m \in Modes, k \in Clocks}
\* the rule objects as they are when the constructor returns
InitialHeap == [id \in DOMAIN heap |-> 0]

\* C5: whatever calls the instance has served since it was constructed, a
\* named operation called now (same value, discriminator, mode and clock
\* reading) returns what it returns as the first call after construction.
C5_NamedCallsRepeat ==
    pc = "idle" =>
        \A self \in Instances : \A c \in NamedCalls(self) :
            CallOutcome(heap, options[self], c).ret
                = CallOutcome(InitialHeap, Constructor(given[self]), c).ret
\* isInteger returns after isValid has moved the global and the sticky rule
C5_Witness ==
    /\ Returned /\ call.op = "isInteger" /\ call.args[1] = <<"1", "0", "1">>
    /\ heap[GlobalA.id] = 1 /\ heap[StickyAb.id] = 2
    /\ result = Bool(TRUE)

\* C6: in every reachable state the options of each instance are the ones
\* its constructor stored, so no call writes them and every guard reads the
\* same timeout.
C6_OptionsNeverChange ==
    \A self \in Instances : options[self] = Constructor(given[self])
\* a verbose call that timed out on an instance constructed with timeout 1
C6_Witness ==
    /\ Returned /\ call.self = 1 /\ call.mode = Verbose
    /\ given[1] = [timeout |-> Num(1)]
    /\ result = TimeoutResult(Verbose)

\* the rule of the catalog accepts the text
LatitudeMatches(self, lat) ==
    RegExpTest(complexPatterns(self).coordinates.latitude, lat, 0).v.v
LongitudeMatches(self, lng) ==
    RegExpTest(complexPatterns(self).coordinates.longitude, lng, 0).v.v

\* C7: in a mode other than verbose, when no guard trips, isValidCoordinates
\* returns true exactly when lat matches the latitude rule and lng matches
\* the longitude rule.
C7_BothMustMatch ==
    (Returned /\ call.op = "isValidCoordinates" /\ call.mode # Verbose /\ NoTimeout(call)) =>
        result = Bool(LatitudeMatches(call.self, call.args[1])
                      /\ LongitudeMatches(call.self, call.args[2]))
\* a valid latitude with an invalid longitude
C7_Witness ==
    /\ Returned /\ call.op = "isValidCoordinates" /\ call.mode # Verbose /\ NoTimeout(call)
    /\ call.args = <<<<"4", "5">>, <<"1", "8", "1">>>>
    /\ result = Bool(FALSE)

(***************************************************************************)
(* The coordinate rules on decimal numerals: a default instance checks     *)
(* every numeral of the bounds below as a latitude and as a longitude,     *)
(* the other axis holding a fixed value.                                   *)
(***************************************************************************)
MaxDegrees == 185
MaxFraction == 2
FractionDigits == {"0", "7"}
Fractions == UNION {[1..n -> FractionDigits] : n \in 0..MaxFraction}
Numeral(negative, whole, fraction) ==
    (IF negative THEN <<"-">> ELSE <<>>)
    \o NatToString(whole)
    \o (IF fraction = <<>> THEN <<>> ELSE <<".">> \o fraction)
Numerals ==
    {Numeral(n, w, f) : n \in BOOLEAN, w \in 0..MaxDegrees, f \in Fractions}
OtherAxis == {<<"0">>, <<"-", "9", "0", ".", "0">>}
InitDefault ==
    /\ given = [i \in Instances |-> Undefined]
    /\ options = [i \in Instances |-> Constructor(given[i])]
    /\ heap = [id \in UNION {CatalogIds(i) : i \in Instances} \cup {R.id : R \in CallerRules}
                 |-> 0]
    /\ pc = "idle"
    /\ call = NoCall
    /\ result = Undefined
CheckLatitude == CallCoordinates(1, Numerals, OtherAxis, {Undefined}, {<<0, 0>>})
CheckLongitude == CallCoordinates(1, OtherAxis, Numerals, {Undefined}, {<<0, 0>>})
NextCoord == Resume \/ CheckLatitude \/ CheckLongitude
SpecCoord == InitDefault /\ [][NextCoord]_vars

\* the value of the numeral t lies in [-limit, limit]: its whole part is
\* below limit, or is limit with a fraction of zeros only
Magnitude(t) == IF Head(t) = "-" THEN Tail(t) ELSE t
PointOf(u) == IF \E k \in 1..Len(u) : u[k] = "."
              THEN CHOOSE k \in 1..Len(u) : u[k] = "."
              ELSE Len(u) + 1
WholeOf(u) == DigitsValue(SubSeq(u, 1, PointOf(u) - 1), 0)
FractionOf(u) == SubSeq(u, PointOf(u) + 1, Len(u))
Within(t, limit) ==
    \/ WholeOf(Magnitude(t)) < limit
    \/ /\ WholeOf(Magnitude(t)) = limit
       /\ \A k \in DOMAIN FractionOf(Magnitude(t)) : FractionOf(Magnitude(t))[k] = "0"

\* C8: for numerals (optional '-', whole part without leading zeros,
\* optional '.' and digits) the latitude rule accepts exactly the values in
\* [-90, 90] and the longitude rule exactly the values in [-180, 180].
C8_NumericRanges ==
    (Returned /\ call.op = "isValidCoordinates") =>
        result = Bool(Within(call.args[1], 90) /\ Within(call.args[2], 180))
\* 90.00 is accepted as a latitude
C8_Witness ==
    /\ Returned /\ call.op = "isValidCoordinates"
    /\ call.args[1] = <<"9", "0", ".", "0", "0">>
    /\ result = Bool(TRUE)

\* C9: with a selector that is none of the four supported ones, isValidDate
\* returns what it returns for 'DD/MM/YYYY' and reports no error.
SupportedFormats ==
    {Name("DD/MM/YYYY"), Name("MM/DD/YYYY"), Name("YYYY-MM-DD"), Name("YYYY/MM/DD")}
C9_UnknownSelectorFallsBack ==
    (Returned /\ call.op = "isValidDate" /\ call.args[2] \notin SupportedFormats
        /\ call.args[2] # Undefined) =>
        /\ result = CallOutcome(heap, options[call.self],
                                [call EXCEPT !.args[2] = Name("DD/MM/YYYY")]).ret
        /\ ~MessageStarts(result, "Validation error: ")

\* the policy as isStrongPassword merges it, and what the policy asks for
MergedPolicy(policy) == Spread(PolicyDefaults, IF policy = Undefined THEN <<>> ELSE policy)
Contains(text, S) == \E k \in DOMAIN text : text[k] \in S
SpecialChars == {"!", "@", "#", "$", "%", "^", "&", "*"}
ClassesMet(password, opts) ==
    /\ Truthy(opts.requireUppercase) => Contains(password, Upper)
    /\ Truthy(opts.requireNumbers) => Contains(password, Digit)
    /\ Truthy(opts.requireSpecialChars) => Contains(password, SpecialChars)
MeetsPolicy(password, opts) ==
    Len(password) >= opts.minLength.v /\ ClassesMet(password, opts)

\* C10: with an integer minLength >= 1, isStrongPassword returns true exactly
\* when the password has at least minLength characters and a character of
\* each class the policy requires.
C10_StrongPasswordIff ==
    (Returned /\ call.op = "isStrongPassword" /\ call.mode # Verbose /\ NoTimeout(call)
        /\ MergedPolicy(call.args[2]).minLength.t = "number"
        /\ MergedPolicy(call.args[2]).minLength.v >= 1) =>
        result = Bool(MeetsPolicy(call.args[1], MergedPolicy(call.args[2])))

\* the policy with the fields the caller left unset (absent, or undefined)
\* filled from the baseline
SetFields(policy) ==
    IF policy = Undefined THEN <<>>
    ELSE [k \in {f \in DOMAIN policy : policy[f] # Undefined} |-> policy[k]]
FullPolicy(policy) == Spread(PolicyDefaults, SetFields(policy))

\* C11: isStrongPassword with a policy returns what it returns with the full
\* policy in which every field the caller left unset, absent or undefined,
\* has the baseline value.
C11_UnsetFieldsTakeBaseline ==
    (Returned /\ call.op = "isStrongPassword") =>
        result = CallOutcome(heap, options[call.self],
                             [call EXCEPT !.args[2] = FullPolicy(call.args[2])]).ret

\* C12: with a minLength of 0 or below, isStrongPassword returns true exactly
\* when the password has a character of each class the policy requires.
C12_NonPositiveIsNoMinimum ==
    (Returned /\ call.op = "isStrongPassword" /\ call.mode # Verbose /\ NoTimeout(call)
        /\ MergedPolicy(call.args[2]).minLength.t = "number"
        /\ MergedPolicy(call.args[2]).minLength.v <= 0) =>
        result = Bool(ClassesMet(call.args[1], MergedPolicy(call.args[2])))

(***************************************************************************)
(* isValidUUID on a default instance: two well-formed UUIDs, every text    *)
(* that differs from one of them in one position, and texts of other       *)
(* lengths.                                                                *)
(***************************************************************************)
UuidLower == <<"5", "5", "0", "e", "8", "4", "0", "0", "-", "e", "2", "9", "b", "-", "4", "1", "d", "4", "-", "a", "7", "1", "6", "-", "4", "4", "6", "6", "5", "5", "4", "4", "0", "0", "0", "0">>
UuidUpper == <<"6", "B", "A", "7", "B", "8", "1", "0", "-", "9", "D", "A", "D", "-", "1", "1", "D", "1", "-", "8", "0", "B", "4", "-", "0", "0", "C", "0", "4", "F", "D", "4", "3", "0", "C", "8">>
UuidAlphabet == {"0", "6", "9", "a", "B", "c", "F", "g", "-", " "}
OneOff(base) == {[base EXCEPT ![p] = ch] : p \in DOMAIN base, ch \in UuidAlphabet}
OtherLengths(base) ==
    {<<>>, SubSeq(base, 1, Len(base) - 1), Append(base, "0"), Append(base, "\n"),
     <<"0">> \o base, SubSeq(base, 1, 8)}
UuidValues ==
    UNION {OneOff(base) \cup OtherLengths(base) : base \in {UuidLower, UuidUpper}}
IsValidUUID(self) ==
    \E uuid \in UuidValues, mode \in Modes :
        Returns(self, "isValidUUID", <<uuid>>, mode, <<0>>,
                isValidUUID(heap, options[self], uuid, mode, <<0>>))
NextUuid == Resume \/ IsValidUUID(1)
SpecUuid == InitDefault /\ [][NextUuid]_vars

\* hexadecimal digits grouped 8-4-4-4-12 with hyphens, the version digit in
\* 1..5 and the variant digit one of 8, 9, a, b in either case
HyphenAt == {9, 14, 19, 24}
GroupedHex(s) ==
    /\ Len(s) = 36
    /\ \A p \in DOMAIN s : IF p \in HyphenAt THEN s[p] = "-" ELSE s[p] \in HexDigit
WellFormedUuid(s) ==
    /\ GroupedHex(s)
    /\ s[15] \in CharRange("1", "5")
    /\ s[20] \in {"8", "9", "a", "b", "A", "B"}

\* C13: isValidUUID accepts exactly the 8-4-4-4-12 groups of hexadecimal
\* digits whose version digit is in 1..5 and whose variant digit is one of
\* 8, 9, a, b; in verbose mode isValid says the same.
C13_UuidAccepted ==
    (Returned /\ call.op = "isValidUUID") =>
        (IF call.mode = Verbose THEN result.isValid ELSE result)
            = Bool(WellFormedUuid(call.args[1]))
\* grouped hexadecimal digits with the version digit 6 are rejected
C13_Witness ==
    /\ Returned /\ call.op = "isValidUUID" /\ call.mode # Verbose
    /\ GroupedHex(call.args[1]) /\ call.args[1][15] = "6"
    /\ result = Bool(FALSE)

\* the timeout the instance is configured with (5000 when none is)
ConfiguredTimeout(o) == IF o.timeout = Undefined THEN DefaultTimeout ELSE o.timeout.v
\* the call that is returning in this step
Calls == pc = "idle" /\ pc' = "returned"

\* C14: a call whose elapsed time exceeds the configured timeout when the
\* guard runs returns the timeout outcome and leaves every rule untouched;
\* any other call returns what it returns with no time elapsed.
C14_GuardBeforeRule ==
    [][(Calls /\ call'.op # "isValidCoordinates") =>
        IF call'.clock[1] > ConfiguredTimeout(options[call'.self])
        THEN result' = TimeoutResult(call'.mode) /\ heap' = heap
        ELSE result' = CallOutcome(heap, options[call'.self],
                                   [call' EXCEPT !.clock = <<0>>]).ret]_vars

C16_OnlyTheResult ==
    [][Calls => (heap' = heap /\ options' = options)]_vars

\* C17: in any interleaving of calls on one instance and on several, a named
\* operation returns what it returns on an instance that has served no call,
\* and it leaves the rules of the other instances as they are.
C17_CallsRunAlone ==
    [][(Calls /\ call'.op # "isValid") =>
        /\ result' = CallOutcome(InitialHeap, Constructor(given[call'.self]), call').ret
        /\ \A other \in Instances \ {call'.self} :
            \A id \in CatalogIds(other) : heap'[id] = heap[id]]_vars
\* instance 2 serves isBinary after isValid calls have moved the caller's rules
C17_Witness ==
    /\ Returned /\ call.self = 2 /\ call.op = "isBinary"
    /\ call.args[1] = <<"1", "0", "1">>
    /\ heap[GlobalA.id] = 1 /\ heap[StickyAb.id] = 2
    /\ result = Bool(TRUE)

\* C20: the Litecoin address of the documentation checked with type 'LTC' is
\* accepted.
C20_LitecoinAccepted ==
    (Returned /\ call.op = "isValidCryptoAddress" /\ NoTimeout(call)
        /\ call.args = <<LitecoinAddress, Name("LTC")>>) =>
        (IF call.mode = Verbose THEN result.isValid ELSE result) = Bool(TRUE)

(***************************************************************************)
(* The constructor given every subset of the four options, each with one   *)
(* of two values; the instance then serves isInteger.                      *)
(***************************************************************************)
OptionNames == {"timeout", "caseSensitive", "multiline", "unicode"}
OptionValues ==
    [timeout : {Num(1), Num(250)}, caseSensitive : {Bool(TRUE), Bool(FALSE)},
     multiline : {Bool(TRUE), Bool(FALSE)}, unicode : {Bool(TRUE), Bool(FALSE)}]
Subsets ==
    {Undefined} \cup {[f \in S |-> all[f]] : S \in SUBSET OptionNames, all \in OptionValues}
InitConfig ==
    /\ \E g \in Subsets : given = [i \in Instances |-> IF i = 1 THEN g ELSE Undefined]
    /\ options = [i \in Instances |-> Constructor(given[i])]
    /\ heap = [id \in UNION {CatalogIds(i) : i \in Instances} \cup {R.id : R \in CallerRules}
                 |-> 0]
    /\ pc = "idle"
    /\ call = NoCall
    /\ result = Undefined
NextConfig == Resume \/ IsInteger(1)
SpecConfig == InitConfig /\ [][NextConfig]_vars

Supplied(self, f) == given[self] # Undefined /\ f \in DOMAIN given[self]
StatedDefaults ==
    [timeout |-> Num(5000), caseSensitive |-> Bool(TRUE), multiline |-> Bool(FALSE),
     unicode |-> Bool(TRUE)]

\* C18: the stored configuration has the four options, each supplied one at
\* the supplied value and each other one at its default: timeout 5000,
\* caseSensitive true, multiline false, unicode true.
C18_StoredConfiguration ==
    \A self \in Instances :
        /\ DOMAIN options[self] = OptionNames
        /\ \A f \in OptionNames :
            options[self][f] = IF Supplied(self, f) THEN given[self][f] ELSE StatedDefaults[f]
\* an instance constructed with multiline and timeout only has served a call
C18_Witness ==
    /\ Returned /\ call.self = 1
    /\ given[1] = [multiline |-> Bool(TRUE), timeout |-> Num(250)]
    /\ options[1] = [timeout |-> Num(250), caseSensitive |-> Bool(TRUE),
                     multiline |-> Bool(TRUE), unicode |-> Bool(TRUE)]


(***************************************************************************)
(* The whole catalog on an instance built without options, every call with *)
(* the clock standing still: each operation is given a value its rule      *)
(* accepts and the same value with other text before or after it.          *)
(***************************************************************************)
Padded(v) == {v, <<"!">> \o v, v \o <<"!">>, v \o <<"\n">>, <<>>}
\* for each operation of FlatOperations a value that its rule accepts
Samples ==
    [isValidEmail |-> <<"a", "@", "b", ".", "c", "o">>,
     isValidIPv4 |-> <<"1", ".", "2", ".", "3", ".", "4">>,
     isValidIPv6 |-> <<"1", ":", "2", ":", "3", ":", "4", ":", "5", ":", "6", ":", "7", ":", "8">>,
     isValidMacAddress |-> <<"0", "0", ":", "1", "A", ":", "2", "b", ":", "3", "c", ":", "4", "d", ":", "5", "e">>,
     isValidUrl |-> <<"h", "t", "t", "p", ":", "/", "/", "a", ".", "i", "o">>,
     isValidUsername |-> <<"a", "b", "c">>,
     isValidHexColor |-> <<"#", "f", "f", "f">>,
     isAlpha |-> <<"a", "b">>,
     isEmoji |-> <<"<U+1F600>">>,
     isAnsiArt |-> <<"a", " ", "b">>,
     isValidJwt |-> <<"a", ".", "b", ".", "c">>,
     isValidDomain |-> <<"a", ".", "i", "o">>,
     isValidSemver |-> <<"1", ".", "0", ".", "0">>,
     isValidPhoneNumber |-> <<"1", "2", "3", "4", "5", "6", "7", "8">>,
     isValidCreditCard |-> <<"4", "1", "1", "1", "1", "1", "1", "1", "1", "1", "1", "1", "1">>,
     isValidSSN |-> <<"1", "2", "3", "-", "4", "5", "-", "6", "7", "8", "9">>,
     isValidISBN |-> <<"0", "3", "0", "6", "4", "0", "6", "1", "5", "2">>,
     isValidTime |-> <<"2", "3", ":", "5", "9">>,
     isPositiveInteger |-> <<"4", "2">>,
     isNegativeInteger |-> <<"-", "4", "2">>,
     isNonZeroInteger |-> <<"7">>,
     isFloat |-> <<"1", ".", "5">>,
     isPositiveFloat |-> <<"1", ".", "5">>,
     isNegativeFloat |-> <<"-", "1", ".", "5">>,
     isAlphanumeric |-> <<"a", "1">>,
     isHexadecimal |-> <<"f", "F">>,
     isValidMD5 |-> Text(31, "a") \o <<"F">>,
     isValidSHA1 |-> Text(39, "a") \o <<"F">>,
     isValidSHA256 |-> Text(63, "a") \o <<"F">>,
     isValidFilePath |-> <<"a", "/", "b">>,
     isValidFileName |-> <<"a", ".", "b">>,
     isKebabCase |-> <<"a", "-", "b">>,
     isCamelCase |-> <<"a", "B">>,
     isSnakeCase |-> <<"a", "_", "b">>,
     isPascalCase |-> <<"A", "b">>]
CallFlat(self) ==
    \E op \in DOMAIN FlatOperations, mode \in Modes :
        \E value \in Padded(Samples[op]) :
            Returns(self, op, <<value>>, mode, <<0>>,
                    Flat(self, op, heap, options[self], value, mode, <<0>>))
IsValidSlug(self) ==
    \E value \in Padded(<<"a", "-", "b">>), mode \in Modes :
        Returns(self, "isValidSlug", <<value>>, mode, <<0>>,
                isValidSlug(heap, options[self], value, mode, <<0>>))
IsBase64(self) ==
    \E value \in Padded(<<"Q", "U", "J", "D">>), mode \in Modes :
        Returns(self, "isBase64", <<value>>, mode, <<0>>,
                isBase64(heap, options[self], value, mode, <<0>>))
CheckNumber(self) ==
    \E value \in Padded(<<"1", "0", "1">>), mode \in Modes :
        \/ Returns(self, "isInteger", <<value>>, mode, <<0>>,
                   isInteger(self, heap, options[self], value, mode, <<0>>))
        \/ Returns(self, "isBinary", <<value>>, mode, <<0>>,
                   isBinary(self, heap, options[self], value, mode, <<0>>))
CheckPassword(self) ==
    \E password \in Padded(<<"P", "a", "s", "s", "w", "0", "r", "d", "!">>), level \in Levels, mode \in Modes :
        Returns(self, "isValidPassword", <<password, level>>, mode, <<0>>,
                isValidPassword(self, heap, options[self], password, level, mode, <<0>>))
CheckPostalCode(self) ==
    \E code \in Padded(<<"K", "1", "A", "0", "B", "1">>), country \in Countries, mode \in Modes :
        Returns(self, "isValidPostalCode", <<code, country>>, mode, <<0>>,
                isValidPostalCode(self, heap, options[self], code, country, mode, <<0>>))
CheckCryptoAddress(self) ==
    \E address \in Padded(<<"1">> \o Text(26, "B")) \cup Padded(<<"0", "x">> \o Text(40, "a")),
       type \in CoinTypes, mode \in Modes :
        Returns(self, "isValidCryptoAddress", <<address, type>>, mode, <<0>>,
                isValidCryptoAddress(self, heap, options[self], address, type, mode, <<0>>))
CheckCoordinates(self) ==
    CallCoordinates(self, Padded(<<"4", "5">>), Padded(<<"9", "1">>), Modes, {<<0, 0>>})
CheckDate(self) ==
    CallDate(self,
             Padded(<<"3", "1", "/", "1", "2", "/", "2", "0", "2", "3">>) \cup Padded(<<"2", "0", "2", "3", "-", "1", "2", "-", "3", "1">>),
             DateFormats, Modes, {<<0>>})
CheckStrongPassword(self) ==
    CallStrongPassword(self, Padded(<<"P", "a", "s", "s", "w", "0", "r", "d", "!">>), Policies, Modes, {<<0>>})
\* values with and without a tag-like construct
TagValues ==
    {<<"<", "a", ">">>,
     <<"x", "<", "B", ">", "y">>,
     <<"a", "<", "/", "p", ">">>,
     <<"<", "a">>,
     <<"<", " ", "a", ">">>,
     <<"<", "1", ">">>,
     <<">", "a", "<">>,
     <<"a", "<", "b", " ", "c">>,
     <<"<", "/", ">">>,
     <<"<", "<", "i", ">">>,
     <<"1", " ", "<", " ", "2">>,
     <<>>}
CheckHtmlTag(self) ==
    \E value \in TagValues, mode \in Modes :
        Returns(self, "containsHtmlTag", <<value>>, mode, <<0>>,
                containsHtmlTag(self, heap, options[self], value, mode, <<0>>))
NextCatalog ==
    \/ Resume
    \/ CallFlat(1)
    \/ IsValidSlug(1)
    \/ IsBase64(1)
    \/ IsValidUUID(1)
    \/ CheckNumber(1)
    \/ CheckPassword(1)
    \/ CheckPostalCode(1)
    \/ CheckCryptoAddress(1)
    \/ CheckCoordinates(1)
    \/ CheckDate(1)
    \/ CheckStrongPassword(1)
    \/ CheckHtmlTag(1)
SpecCatalog == InitDefault /\ [][NextCatalog]_vars

\* the operations that test their value against one fixed rule other than htmlTag
WholeValueOperations ==
    DOMAIN FlatOperations
    \cup {"isInteger", "isBinary", "isValidPassword", "isValidPostalCode",
          "isValidCryptoAddress", "isValidDate", "isValidUUID", "isStrongPassword",
          "isValidSlug", "isBase64"}
\* the fixed rules behind them: both tables and the rules written inside operations
FixedRules(self) ==
    {patterns(self)[k] : k \in DOMAIN patterns(self) \ {"htmlTag"}}
    \cup UNION {{complexPatterns(self)[f][k] : k \in DOMAIN complexPatterns(self)[f]} :
                f \in DOMAIN complexPatterns(self)}
    \cup {DatePatterns[k] : k \in DOMAIN DatePatterns}
    \cup {RegExp(Fresh, UuidSource, {"i"}), RegExp(Fresh, SlugSource, {}),
          RegExp(Fresh, Base64Source, {})}
\* every alternative of the pattern opens with ^ and closes with $
RECURSIVE AnchoredAtBothEnds(_)
AnchoredAtBothEnds(r) ==
    CASE r.k = "alt" -> \A i \in DOMAIN r.l : AnchoredAtBothEnds(r.l[i])
      [] r.k = "cat" -> r.l # <<>> /\ Head(r.l) = Bol /\ r.l[Len(r.l)] = Eol
      [] OTHER -> FALSE
Accepted(r) == r = Bool(TRUE) \/ (IsOutcome(r) /\ r.isValid = Bool(TRUE))
\* the match m is the whole of value, first character to last
Spans(m, value) == m # Null /\ m.index = 0 /\ m.items[1] = value
\* what the same call returns in verbose mode, where the outcome carries the match
InVerbose(c) == CallOutcome(heap, options[c.self], [c EXCEPT !.mode = Verbose]).ret
CoordinateSpans(c) ==
    /\ Spans(StringMatch(c.args[1], complexPatterns(c.self).coordinates.latitude, 0).m,
             c.args[1])
    /\ Spans(StringMatch(c.args[2], complexPatterns(c.self).coordinates.longitude, 0).m,
             c.args[2])
\* a tag-like construct: <, an optional /, a letter, and a > somewhere after it
HasTag(v) ==
    \E i \in 1..Len(v), j \in 1..Len(v), k \in 1..Len(v) :
        /\ v[i] = "<"
        /\ j = i + 1 \/ (j = i + 2 /\ v[i + 1] = "/")
        /\ v[j] \in Lower \cup Upper
        /\ k > j /\ v[k] = ">"

\* C19: every fixed rule but htmlTag has no m flag and opens every alternative
\* with ^ and closes it with $; a value one of their operations accepts is matched
\* from its first character to its last (for coordinates, each of the two), so
\* text around an acceptable value is never overlooked; containsHtmlTag returns
\* true exactly when a tag-like construct occurs somewhere in the value
C19_WholeValueOrTag ==
    /\ \A R \in FixedRules(1) : "m" \notin R.flags /\ AnchoredAtBothEnds(R.source)
    /\ Returned /\ Accepted(result) /\ call.op \in WholeValueOperations
        => Spans(InVerbose(call).matches, call.args[1])
    /\ Returned /\ Accepted(result) /\ call.op = "isValidCoordinates"
        => CoordinateSpans(call)
    /\ Returned /\ call.op = "containsHtmlTag"
        => (Accepted(result) <=> HasTag(call.args[1]))
\* an ISBN-10 in hyphen-free form is accepted, with its match reported
C19_Witness ==
    /\ Returned /\ call.op = "isValidISBN" /\ call.mode = Verbose
    /\ Accepted(result) /\ Spans(result.matches, call.args[1])

(***************************************************************************)
(* One operation of FlatOperations on a default instance, the clock        *)
(* standing still, with values built for the format of its rule.           *)
(***************************************************************************)
CallFlatOn(self, op, values) ==
    \E value \in values, mode \in Modes :
        Returns(self, op, <<value>>, mode, <<0>>,
                Flat(self, op, heap, options[self], value, mode, <<0>>))
\* texts joined by the separator c, and the texts between the c's of a value
RECURSIVE Joined(_, _)
Joined(parts, c) ==
    IF Len(parts) = 1 THEN parts[1] ELSE parts[1] \o <<c>> \o Joined(Tail(parts), c)
RECURSIVE SplitOn(_, _, _)
SplitOn(v, c, cur) ==
    IF v = <<>> THEN <<cur>>
    ELSE IF Head(v) = c THEN <<cur>> \o SplitOn(Tail(v), c, <<>>)
    ELSE SplitOn(Tail(v), c, Append(cur, Head(v)))

\* addresses of 1..MaxGroups groups: one group of interest among plain ones
MaxGroups == 5
Groups ==
    {<<"0">>, <<"0", "0">>, <<"7">>, <<"9", "9">>, <<"0", "9", "9">>, <<"1", "9", "9">>,
     <<"2", "0", "0">>, <<"2", "4", "9">>, <<"2", "5", "5">>, <<"2", "5", "6">>,
     <<"2", "6", "0">>, <<"3", "0", "0">>, <<"9", "9", "9">>, <<"0", "2", "5", "5">>,
     <<"1", "2", "3", "4">>, <<>>, <<"a">>, <<"-", "1">>, <<"1", " ">>, <<"1", "\n">>}
PlainGroups == {<<"1">>, <<"2", "5", "5">>}
Ipv4Values ==
    {Joined([i \in 1..n |-> IF i = p THEN g ELSE f], ".") :
        n \in 1..MaxGroups, p \in 1..MaxGroups, g \in Groups, f \in PlainGroups}
NextIpv4 == Resume \/ CallFlatOn(1, "isValidIPv4", Ipv4Values)
SpecIpv4 == InitDefault /\ [][NextIpv4]_vars
\* a decimal numeral of one to three digits with a value in 0..255
IsOctet(g) ==
    /\ Len(g) \in 1..3
    /\ \A k \in DOMAIN g : g[k] \in Digit
    /\ DigitsValue(g, 0) <= 255
FourOctets(groups) == Len(groups) = 4 /\ \A k \in DOMAIN groups : IsOctet(groups[k])

\* C21: isValidIPv4 accepts exactly the values made of four groups separated
\* by single dots, each group a numeral of one to three digits worth 0..255;
\* a group above 255 or of four digits, or three or five groups, is rejected
C21_Ipv4Octets ==
    Returned /\ call.op = "isValidIPv4"
        => (Accepted(result) <=> FourOctets(SplitOn(call.args[1], ".", <<>>)))
\* 1.1.1.255 is accepted
C21_Witness ==
    /\ Returned /\ call.op = "isValidIPv4" /\ Accepted(result)
    /\ SplitOn(call.args[1], ".", <<>>) = <<<<"1">>, <<"1">>, <<"1">>, <<"2", "5", "5">>>>

(***************************************************************************)
(* isValidDate on a default instance: days, months and years in the four   *)
(* layouts, each offered to each of the four selectors.                    *)
(***************************************************************************)
DayTexts ==
    {<<"0", "0">>, <<"0", "1">>, <<"0", "9">>, <<"1", "0">>, <<"2", "9">>, <<"3", "0">>,
     <<"3", "1">>, <<"3", "2">>, <<"4", "0">>, <<"1">>, <<"0", "a">>}
MonthTexts ==
    {<<"0", "0">>, <<"0", "1">>, <<"0", "2">>, <<"1", "2">>, <<"1", "3">>, <<"2">>}
YearTexts ==
    {<<"2", "0", "2", "3">>, <<"0", "0", "0", "0">>, <<"2", "0", "2">>,
     <<"2", "0", "2", "3", "4">>}
DateTexts ==
    UNION {{Joined(<<d, m, y>>, "/"), Joined(<<m, d, y>>, "/"), Joined(<<y, m, d>>, "-"),
            Joined(<<y, m, d>>, "/"), Joined(<<d, m, y>>, "-")} :
           d \in DayTexts, m \in MonthTexts, y \in {<<"2", "0", "2", "3">>}}
    \cup {Joined(<<<<"3", "1">>, <<"1", "2">>, y>>, "/") : y \in YearTexts}
    \cup {Joined(<<y, <<"1", "2">>, <<"3", "1">>>>, "-") : y \in YearTexts}
    \cup {<<>>, <<"t", "o", "d", "a", "y">>,
          <<"3", "1", "/", "1", "2", "/", "2", "0", "2", "3", "\n">>,
          <<" ", "3", "1", "/", "1", "2", "/", "2", "0", "2", "3">>,
          <<"3", "1", "/", "1", "2", "-", "2", "0", "2", "3">>,
          <<"2", "0", "2", "3", "-", "1", "2", "/", "3", "1">>,
          <<"3", "1", "1", "2", "2", "0", "2", "3">>}
NextDate == Resume \/ CallDate(1, DateTexts, SupportedFormats, Modes, {<<0>>})
SpecDate == InitDefault /\ [][NextDate]_vars
\* where a selector puts its fields and which separator it uses
LayoutOf(selector) ==
    CASE selector = "DD/MM/YYYY" -> [order |-> <<"day", "month", "year">>, sep |-> "/"]
      [] selector = "MM/DD/YYYY" -> [order |-> <<"month", "day", "year">>, sep |-> "/"]
      [] selector = "YYYY-MM-DD" -> [order |-> <<"year", "month", "day">>, sep |-> "-"]
      [] selector = "YYYY/MM/DD" -> [order |-> <<"year", "month", "day">>, sep |-> "/"]
AllDigits(text, n) == Len(text) = n /\ \A k \in DOMAIN text : text[k] \in Digit
FieldHolds(field, text) ==
    CASE field = "day" -> AllDigits(text, 2) /\ DigitsValue(text, 0) \in 1..31
      [] field = "month" -> AllDigits(text, 2) /\ DigitsValue(text, 0) \in 1..12
      [] field = "year" -> AllDigits(text, 4)
FieldsHold(order, fields) ==
    Len(fields) = 3 /\ \A k \in 1..3 : FieldHolds(order[k], fields[k])
WellFormedDate(value, selector) ==
    FieldsHold(LayoutOf(selector).order, SplitOn(value, LayoutOf(selector).sep, <<>>))

\* C22: under each of the four selectors isValidDate accepts exactly a
\* two-digit day 01..31, a two-digit month 01..12 and a four-digit year in the
\* selector's order and with its separator; no day is checked against its
\* month (31/02/2023 is accepted under DD/MM/YYYY)
C22_DateLayouts ==
    Returned /\ call.op = "isValidDate" /\ call.args[2] \in SupportedFormats
        => (Accepted(result) <=> WellFormedDate(call.args[1], call.args[2].v))
\* the 31st of February is accepted
C22_Witness ==
    /\ Returned /\ call.op = "isValidDate" /\ call.args[2] = Name("DD/MM/YYYY")
    /\ call.args[1] = <<"3", "1", "/", "0", "2", "/", "2", "0", "2", "3">>
    /\ Accepted(result)

\* C23: a verbose isValidCoordinates returns the message 'Both latitude and
\* longitude must be valid' whatever the two values are and whether or not a
\* guard tripped, in an object that holds isValid and message and nothing else
C23_FixedCoordinatesMessage ==
    Returned /\ call.op = "isValidCoordinates" /\ call.mode = Verbose
        => /\ result.message = <<"Both latitude and longitude must be valid">>
           /\ DOMAIN result = {"t", "isValid", "message"}
\* a verbose call whose latitude is in range and whose longitude is not
C23_Witness ==
    /\ Returned /\ call.op = "isValidCoordinates" /\ call.mode = Verbose
    /\ call.args = <<<<"4", "5">>, <<"1", "8", "1">>>>
    /\ call.clock = <<0, 0>>
    /\ result.message = <<"Both latitude and longitude must be valid">>

\* what a level asks of a password ('medium' when no level is given)
MeetsLevel(password, level) ==
    CASE level = Name("simple") -> Len(password) >= 6
      [] level \in {Name("medium"), Undefined} -> Len(password) >= 8
      [] level = Name("complex") ->
            /\ Len(password) >= 8
            /\ Contains(password, Upper) /\ Contains(password, Lower)
            /\ Contains(password, Digit) /\ Contains(password, ComplexSpecial)

\* C24: when no guard trips, isValidPassword accepts under 'simple' exactly
\* the passwords of 6 or more characters, under 'medium' or no level exactly
\* those of 8 or more, and under 'complex' exactly those of 8 or more with an
\* uppercase letter, a lowercase letter, a digit and a special character
C24_PasswordLevels ==
    Returned /\ call.op = "isValidPassword" /\ NoTimeout(call)
             /\ call.args[2] \in {Name("simple"), Name("medium"), Name("complex"), Undefined}
        => (Accepted(result) <=> MeetsLevel(call.args[1], call.args[2]))

(***************************************************************************)
(* isValidUrl on a default instance: a scheme, a host, a port and a path,  *)
(* each drawn from well-formed and ill-formed texts.                       *)
(***************************************************************************)
UrlSchemes ==
    {<<"h", "t", "t", "p", ":", "/", "/">>, <<"h", "t", "t", "p", "s", ":", "/", "/">>,
     <<"f", "t", "p", ":", "/", "/">>, <<"h", "t", "p", ":", "/", "/">>, <<>>,
     <<"H", "T", "T", "P", ":", "/", "/">>, <<"h", "t", "t", "p", ":", "/">>, <<"/", "/">>}
UrlHosts ==
    {<<"l", "o", "c", "a", "l", "h", "o", "s", "t">>,
     <<"1", ".", "2", ".", "3", ".", "4">>,
     <<"9", "9", "9", ".", "1", ".", "1", ".", "1">>, <<"1", ".", "2", ".", "3">>,
     <<"1", "2", "3", "4", ".", "1", ".", "1", ".", "1">>, <<"a", ".", "i", "o">>,
     <<".", "c", "o", "m">>, <<"a", ".", "b", ".", "c", "o">>, <<"a", ".", "c">>,
     <<"a", "-", "b", ".", "i", "o">>, <<"a", "_", "b", ".", "i", "o">>,
     <<"a", ".", "i", "0">>, <<"l", "o", "c", "a", "l", "h", "o", "s", "t", "x">>,
     <<"a", ".", ".", "i", "o">>, <<>>, <<"a", " ", "b", ".", "i", "o">>}
UrlPorts ==
    {<<>>, <<":", "8", "0">>, <<":", "6", "5", "5", "3", "5">>,
     <<":", "1", "2", "3", "4", "5", "6">>, <<":">>, <<":", "8", "a">>}
UrlPaths ==
    {<<>>, <<"/">>, <<"/", "p", "?", "q", "=", "1", "#", "f">>, <<"/", "a", " ", "b">>,
     <<"?", "q">>, <<"/", "a", "	", "b">>}
UrlValues ==
    {s \o h \o p \o q : s \in UrlSchemes, h \in UrlHosts, p \in UrlPorts, q \in UrlPaths}
    \cup {<<"h", "t", "t", "p", ":", "/", "/", "a", ".", "i", "o">> \o <<"\n">>}
NextUrl == Resume \/ CallFlatOn(1, "isValidUrl", UrlValues)
SpecUrl == InitDefault /\ [][NextUrl]_vars
\* the parts of a value: text[from + 1 .. to]
Part(text, from, to) == SubSeq(text, from + 1, to)
IsDigits(text, lo, hi) == Len(text) \in lo..hi /\ \A k \in DOMAIN text : text[k] \in Digit
\* a name: letters, digits, dots and hyphens, then a dot and two or more letters
IsHostName(text) ==
    \E d \in DOMAIN text :
        /\ text[d] = "."
        /\ d > 1 /\ \A k \in 1..(d - 1) : text[k] \in Lower \cup Upper \cup Digit \cup {".", "-"}
        /\ Len(text) - d >= 2 /\ \A k \in (d + 1)..Len(text) : text[k] \in Lower \cup Upper
IsFourGroups(groups) == Len(groups) = 4 /\ \A k \in DOMAIN groups : IsDigits(groups[k], 1, 3)
IsUrlHost(text) ==
    \/ text = <<"l", "o", "c", "a", "l", "h", "o", "s", "t">>
    \/ IsFourGroups(SplitOn(text, ".", <<>>))
    \/ IsHostName(text)
IsUrlPort(text) == text = <<>> \/ (Head(text) = ":" /\ IsDigits(Tail(text), 1, 5))
IsUrlPath(text) ==
    text = <<>> \/ (Head(text) = "/" /\ \A k \in DOMAIN text : text[k] \notin Whitespace)
AfterScheme(text) ==
    \E h \in 0..Len(text), p \in 0..Len(text) :
        /\ h <= p
        /\ IsUrlHost(Part(text, 0, h))
        /\ IsUrlPort(Part(text, h, p))
        /\ IsUrlPath(Part(text, p, Len(text)))
WellFormedUrl(v) ==
    \E s \in {<<"h", "t", "t", "p", ":", "/", "/">>, <<"h", "t", "t", "p", "s", ":", "/", "/">>} :
        /\ Len(v) >= Len(s) /\ Part(v, 0, Len(s)) = s
        /\ AfterScheme(Part(v, Len(s), Len(v)))

EmailLocals ==
    {<<"a">>, <<"A", ".", "b", "_", "c", "%", "d", "+", "e", "-", "1">>, <<>>,
     <<"a", " ", "b">>, <<" ", "a">>, <<"a", "@">>, <<"a", "#">>, <<".">>, <<"a", "!">>}
EmailSeparators ==
    {<<"@">>, <<>>, <<"@", "@">>, <<" ", "@">>, <<".">>}
EmailDomains ==
    {<<"b">>, <<"b", "-", "1", ".", "c">>, <<>>, <<"b", " ", "c">>, <<"-">>, <<".">>,
     <<"b", "_", "c">>, <<"B", "9">>}
EmailEndings ==
    {<<".", "c", "o">>, <<".", "c">>, <<>>, <<".">>, <<".", "c", "0", "m">>,
     <<".", "C", "O", "M">>, <<".", "c", "o", " ">>, <<".", "c", "o", ".">>,
     <<".", "m", "u", "s", "e", "u", "m">>, <<"c", "o">>}
EmailValues ==
    {l \o s \o d \o e :
        l \in EmailLocals, s \in EmailSeparators, d \in EmailDomains, e \in EmailEndings}
    \cup {<<"a", "@", "b", ".", "c", "o">> \o <<"\n">>}
NextEmail == Resume \/ CallFlatOn(1, "isValidEmail", EmailValues)
SpecEmail == InitDefault /\ [][NextEmail]_vars
InClass(text, S) == text # <<>> /\ \A k \in DOMAIN text : text[k] \in S
\* local@domain.tld, cut at the position a of an '@' and the position d of a dot
WellFormedEmail(v) ==
    \E a \in DOMAIN v, d \in DOMAIN v :
        /\ v[a] = "@" /\ v[d] = "." /\ a < d
        /\ InClass(Part(v, 0, a - 1), Lower \cup Upper \cup Digit \cup {".", "_", "%", "+", "-"})
        /\ InClass(Part(v, a, d - 1), Lower \cup Upper \cup Digit \cup {".", "-"})
        /\ Len(v) - d >= 2 /\ InClass(Part(v, d, Len(v)), Lower \cup Upper)

\* C26: isValidEmail accepts exactly local@domain.tld with a local part of
\* one or more letters, digits and . _ % + -, a domain of one or more letters,
\* digits, dots and hyphens, and two or more letters after the last dot; a
\* value without '@', with an empty local part, with a space, or with nothing
\* or no letters after the last dot is rejected
C26_EmailShape ==
    Returned /\ call.op = "isValidEmail"
        => (Accepted(result) <=> WellFormedEmail(call.args[1]))
\* A.b_c%d+e-1@b-1.c.museum is accepted
C26_Witness ==
    /\ Returned /\ call.op = "isValidEmail" /\ Accepted(result)
    /\ call.args[1] = <<"A", ".", "b", "_", "c", "%", "d", "+", "e", "-", "1", "@", "b", "-", "1", ".", "c", ".", "m", "u", "s", "e", "u", "m">>

\* C27: when no guard trips, repeating a call isValid(v, r, mode) right after it
\* returned, with the same value and the same rule object r, returns the same
\* result again, whatever flags r carries
C27_IsValidRepeats ==
    Returned /\ call.op = "isValid" /\ NoTimeout(call)
        => CallOutcome(heap, options[call.self], call).ret = result

\* the budget of an instance: its timeout when that is a number other than 0
Budget(o) ==
    IF o.timeout = Undefined \/ o.timeout = Num(0) THEN DefaultTimeout ELSE o.timeout.v
\* the instance's options with the budget written in place of the timeout
WithBudget(o) == [o EXCEPT !.timeout = Num(Budget(o))]
\* a call of one guard returns the timeout outcome, rules untouched, exactly
\* when the elapsed time exceeds the budget; and every call returns what it
\* returns on an instance whose timeout is the budget
BudgetDecides ==
    /\ call'.op # "isValidCoordinates" =>
        IF call'.clock[1] > Budget(options[call'.self])
        THEN result' = TimeoutResult(call'.mode) /\ heap' = heap
        ELSE result' = CallOutcome(heap, options[call'.self],
                                   [call' EXCEPT !.clock = <<0>>]).ret
    /\ result' = CallOutcome(heap, WithBudget(options[call'.self]), call').ret
FixedCoordinatesOutcome ==
    [t |-> "object", isValid |-> Bool(FALSE),
     message |-> <<"Both latitude and longitude must be valid">>]

\* C28 as stated: the guard compares the elapsed time with the budget (the
\* timeout, or 5000 when that is 0 or undefined), and an instance with a
\* negative timeout returns the timeout outcome from every operation
C28_BudgetAndNegativeTimeout ==
    [][Calls =>
        /\ BudgetDecides
        /\ Budget(options[call'.self]) < 0 => result' = TimeoutResult(call'.mode)]_vars
\* C28, amended: the same, except that on an instance with a negative timeout
\* a verbose isValidCoordinates returns isValid false with its own fixed
\* message, and every other call the timeout outcome
C28_BudgetAndNegativeTimeoutAmended ==
    [][Calls =>
        /\ BudgetDecides
        /\ Budget(options[call'.self]) < 0 =>
            result' = IF call'.op = "isValidCoordinates" /\ call'.mode = Verbose
                      THEN FixedCoordinatesOutcome
                      ELSE TimeoutResult(call'.mode)]_vars
\* an instance built with timeout -1 answers isInteger('-7') with the timeout
\* outcome although no time has elapsed
C28_Witness ==
    /\ Returned /\ call.op = "isInteger" /\ call.args[1] = <<"-", "7">>
    /\ options[call.self].timeout = Num(0 - 1) /\ call.clock = <<0>>
    /\ result = TimeoutResult(call.mode)

(***************************************************************************)
(* Two instances built with the same timeout, the first with advisory      *)
(* options that differ from the second's, serving every operation.         *)
(***************************************************************************)
AdvisoryOptions ==
    {[caseSensitive |-> Bool(FALSE)],
     [caseSensitive |-> Bool(FALSE), multiline |-> Bool(TRUE), unicode |-> Bool(FALSE)]}
SharedTimeouts == {<<>>}
InitAdvisory ==
    /\ \E a \in AdvisoryOptions, t \in SharedTimeouts :
        given = [i \in Instances |-> IF i = 1 THEN Spread(t, a) ELSE Spread(t, <<>>)]
    /\ options = [i \in Instances |-> Constructor(given[i])]
    /\ heap = [id \in UNION {CatalogIds(i) : i \in Instances} \cup {R.id : R \in CallerRules}
                 |-> 0]
    /\ pc = "idle"
    /\ call = NoCall
    /\ result = Undefined
\* values that differ from an accepted one in the case of a letter only
CaseProbes == {<<"A", "b">>, <<"a", "b">>, <<"A", "B">>}
NextAdvisory ==
    \/ Next
    \/ \E self \in Instances :
        \/ CallFlat(self)
        \/ CallFlatOn(self, "isPascalCase", CaseProbes)
        \/ IsValidSlug(self)
        \/ IsBase64(self)
        \/ \E uuid \in {UuidLower, UuidUpper}, mode \in Modes :
            Returns(self, "isValidUUID", <<uuid>>, mode, <<0>>,
                    isValidUUID(heap, options[self], uuid, mode, <<0>>))
SpecAdvisory == InitAdvisory /\ [][NextAdvisory]_vars
OtherInstance(self) == CHOOSE i \in Instances : i # self
\* the options of the two instances agree except on the advisory ones
DifferInAdvisoryOnly ==
    /\ options[1].timeout = options[2].timeout
    /\ \E f \in {"caseSensitive", "multiline", "unicode"} : options[1][f] # options[2][f]

\* C29: when two instances differ in caseSensitive, multiline and unicode
\* only, whatever a call returns on one of them the same call made instead
\* on the other returns as well
C29_AdvisoryOptionsUnread ==
    [][Calls /\ DifferInAdvisoryOnly =>
        result' = CallOutcome(heap, options[OtherInstance(call'.self)],
                              [call' EXCEPT !.self = OtherInstance(@)]).ret]_vars
\* the instance built with caseSensitive false rejects 'ab' as Pascal case
C29_Witness ==
    /\ Returned /\ call.self = 1 /\ options[1].caseSensitive = Bool(FALSE)
    /\ DifferInAdvisoryOnly
    /\ call.op = "isPascalCase" /\ call.args[1] = <<"a", "b">> /\ ~Accepted(result)

(***************************************************************************)
(* The empty string as the value of the operations with a fixed rule.      *)
(***************************************************************************)
\* the operations whose rule is fixed by the class, coordinates included;
\* the rule of isStrongPassword is built from its policy and is not one
FixedFormatOperations ==
    (WholeValueOperations \ {"isStrongPassword"}) \cup {"containsHtmlTag", "isValidCoordinates"}
\* the call has the empty string for its value (for one of the two coordinates)
OnEmpty(c) ==
    \/ c.args[1] = <<>>
    \/ c.op = "isValidCoordinates" /\ c.args[2] = <<>>

\* C30: on the empty string every operation with a fixed rule, whatever the
\* discriminator, answers that it is invalid, except isBase64 which answers
\* that it is valid
C30_EmptyRejectedButBase64 ==
    Returned /\ call.op \in FixedFormatOperations /\ OnEmpty(call)
        => (Accepted(result) <=> call.op = "isBase64")
\* isBase64('') has returned true
C30_Witness ==
    /\ Returned /\ call.op = "isBase64" /\ call.args[1] = <<>>
    /\ result = Bool(TRUE)
\* isAlpha('') has returned false
C30_WitnessRejected ==
    /\ Returned /\ call.op = "isAlpha" /\ call.args[1] = <<>>
    /\ result = Bool(FALSE)

====
